---- MODULE Spec2Model ----
(***************************************************************************)
(* A model of the spreadsheet engine of rust-engine/src: the cell model    *)
(* (cell.rs), the sparse grid and its patch surface (grid.rs), the formula *)
(* parser, evaluator, dependency graph and recalculation (formula.rs) and  *)
(* the SheetEngine facade (lib.rs).                                        *)
(*                                                                         *)
(* Conventions.  A Rust String is a sequence of one-character strings.     *)
(* Option<T> is a sequence of length 0 (None) or 1 (Some).  f64 numbers    *)
(* are modelled by integers: the inputs of the model are integer literals  *)
(* and the only division the inputs contain is a division by zero.         *)
(* Result<T, E> is a record with a field ok and, when ok is FALSE, a field *)
(* err naming the error variant.                                           *)
(***************************************************************************)
EXTENDS Integers, Sequences, FiniteSets, TLC

VARIABLES grid, formulas, dep_graph, lastCall, lastResult, ops

vars == <<grid, formulas, dep_graph, lastCall, lastResult, ops>>

(***************************************************************************)
(* Bounds of the model.                                                    *)
(***************************************************************************)
\* Number of public operations performed in one behaviour.
MaxOps == 3

\* Grid::new(rows, cols) of the modelled session.
Rows == 1
Cols == 3
\* The last column index of the reference session (A .. ZZ, AAA .. AAC).
MaxRefCol == 704

(***************************************************************************)
(* Option and String helpers.                                              *)
(***************************************************************************)
\* let v = value; ...: the value is computed once and named in body.
Bind(value, body(_)) == body(value)

None == << >>
Some(x) == << x >>
IsSome(o) == Len(o) = 1
Unwrap(o) == o[1]

Digits == <<"0", "1", "2", "3", "4", "5", "6", "7", "8", "9">>
UpperLetters == <<"A", "B", "C", "D", "E", "F", "G", "H", "I", "J", "K", "L", "M",
                  "N", "O", "P", "Q", "R", "S", "T", "U", "V", "W", "X", "Y", "Z">>
LowerLetters == <<"a", "b", "c", "d", "e", "f", "g", "h", "i", "j", "k", "l", "m",
                  "n", "o", "p", "q", "r", "s", "t", "u", "v", "w", "x", "y", "z">>

IndexOf(seq, c) == CHOOSE i \in 1..Len(seq) : seq[i] = c
Range(seq) == {seq[i] : i \in 1..Len(seq)}

is_ascii_digit(c) == c \in Range(Digits)
is_ascii_alphabetic(c) == c \in Range(UpperLetters) \cup Range(LowerLetters)
DigitValue(c) == IndexOf(Digits, c) - 1

to_ascii_uppercase(c) ==
    IF c \in Range(LowerLetters) THEN UpperLetters[IndexOf(LowerLetters, c)] ELSE c

to_uppercase(s) == [i \in 1..Len(s) |-> to_ascii_uppercase(s[i])]

eq_ignore_ascii_case(s, t) == to_uppercase(s) = to_uppercase(t)

RECURSIVE trim_start(_)
trim_start(s) ==
    IF s # << >> /\ Head(s) = " " THEN trim_start(Tail(s)) ELSE s

RECURSIVE trim_end(_)
trim_end(s) ==
    IF s # << >> /\ s[Len(s)] = " " THEN trim_end(SubSeq(s, 1, Len(s) - 1)) ELSE s

trim(s) == trim_end(trim_start(s))

starts_with(s, c) == s # << >> /\ s[1] = c
ends_with(s, c) == s # << >> /\ s[Len(s)] = c

\* str::find(ch): the 1-based position of the first occurrence, 0 when absent.
find(s, c) ==
    IF c \in Range(s) THEN CHOOSE i \in 1..Len(s) : s[i] = c /\ \A j \in 1..(i - 1) : s[j] # c
    ELSE 0

\* Value of a non-empty string of decimal digits.
RECURSIVE DecimalValue(_)
DecimalValue(s) ==
    IF s = << >> THEN 0
    ELSE 10 * DecimalValue(SubSeq(s, 1, Len(s) - 1)) + DigitValue(s[Len(s)])

AllDigits(s) == s # << >> /\ \A i \in 1..Len(s) : is_ascii_digit(s[i])

\* str::parse::<u32>(): an optional '+' and decimal digits.
parse_u32(s) ==
    LET body == IF starts_with(s, "+") THEN Tail(s) ELSE s
    IN  IF AllDigits(body) THEN Some(DecimalValue(body)) ELSE None

\* str::parse::<f64>() on the integer literals of the model: an optional
\* sign and decimal digits.
parse_f64(s) ==
    LET signed == starts_with(s, "+") \/ starts_with(s, "-")
        body == IF signed THEN Tail(s) ELSE s
    IN  IF ~AllDigits(body) THEN None
        ELSE IF starts_with(s, "-") THEN Some(0 - DecimalValue(body))
        ELSE Some(DecimalValue(body))

\* format!("{}", n) of an integer.
RECURSIVE NatToString(_)
NatToString(n) ==
    IF n < 10 THEN << Digits[n + 1] >>
    ELSE Append(NatToString(n \div 10), Digits[(n % 10) + 1])

IntToString(n) == IF n < 0 THEN << "-" >> \o NatToString(0 - n) ELSE NatToString(n)

(***************************************************************************)
(* cell.rs: CellRef.                                                       *)
(***************************************************************************)
CellRef(r, c) == [row |-> r, col |-> c]

saturating_sub(a, b) == IF a >= b THEN a - b ELSE 0

\* Mutant of col_to_letter: plain base 26, n / 26 without the - 1.
RECURSIVE col_to_letter_base26(_)
col_to_letter_base26(n) ==
    IF n < 26 THEN << UpperLetters[(n % 26) + 1] >>
    ELSE Append(col_to_letter_base26(n \div 26), UpperLetters[(n % 26) + 1])

RECURSIVE col_to_letter(_)
col_to_letter(n) ==
    IF n < 26 THEN << UpperLetters[(n % 26) + 1] >>
    ELSE Append(col_to_letter((n \div 26) - 1), UpperLetters[(n % 26) + 1])

RECURSIVE LetterFold(_, _)
LetterFold(letter, col) ==
    IF letter = << >> THEN Some(col)
    ELSE IF ~is_ascii_alphabetic(Head(letter)) THEN None
    ELSE LetterFold(Tail(letter),
                    col * 26 + (IndexOf(UpperLetters, to_ascii_uppercase(Head(letter)))))

letter_to_col(letter) ==
    LET col == LetterFold(letter, 0)
    IN  IF IsSome(col) THEN Some(saturating_sub(Unwrap(col), 1)) ELSE None

RECURSIVE CountLeadingAlpha(_)
CountLeadingAlpha(s) ==
    IF s # << >> /\ is_ascii_alphabetic(Head(s)) THEN 1 + CountLeadingAlpha(Tail(s)) ELSE 0

CellRefParse(text) ==
    LET s == to_uppercase(trim(text))
        col_end == CountLeadingAlpha(s)
        col == letter_to_col(SubSeq(s, 1, col_end))
        row == parse_u32(SubSeq(s, col_end + 1, Len(s)))
    IN  IF col_end = 0 THEN None
        ELSE IF ~IsSome(col) THEN None
        ELSE IF ~IsSome(row) THEN None
        ELSE Some(CellRef(saturating_sub(Unwrap(row), 1), Unwrap(col)))

to_a1(ref) == col_to_letter(ref.col) \o IntToString(ref.row + 1)

(***************************************************************************)
(* cell.rs: CellValue and Cell.                                            *)
(***************************************************************************)
Empty == [type |-> "Empty"]
Text(s) == [value |-> s, type |-> "Text"]
Number(n) == [value |-> n, type |-> "Number"]
Boolean(b) == [value |-> b, type |-> "Boolean"]
Error(code) == [value |-> code, type |-> "Error"]

StrTrue == <<"t", "r", "u", "e">>
StrFalse == <<"f", "a", "l", "s", "e">>
StrDivZero == <<"D", "I", "V", "/", "0">>

CurrencyFilter(s) == SelectSeq(s, LAMBDA c : is_ascii_digit(c) \/ c = "." \/ c = "-")

CellValueParse(s) ==
    LET trimmed == trim(s)
        pct == parse_f64(SubSeq(trimmed, 1, Len(trimmed) - 1))
        cur == parse_f64(CurrencyFilter(trimmed))
    IN  IF trimmed = << >> THEN Empty
        ELSE IF eq_ignore_ascii_case(trimmed, StrTrue) THEN Boolean(TRUE)
        ELSE IF eq_ignore_ascii_case(trimmed, StrFalse) THEN Boolean(FALSE)
        ELSE IF IsSome(parse_f64(trimmed)) THEN Number(Unwrap(parse_f64(trimmed)))
        ELSE IF ends_with(trimmed, "%") /\ IsSome(pct) THEN Number(Unwrap(pct) \div 100)
        ELSE IF (starts_with(trimmed, "$")
                 \/ (starts_with(trimmed, "-") /\ Len(trimmed) >= 2 /\ trimmed[2] = "$"))
                /\ IsSome(cur)
             THEN Number(Unwrap(cur))
        ELSE Text(s)

display(v) ==
    CASE v.type = "Empty" -> << >>
      [] v.type = "Text" -> v.value
      [] v.type = "Number" -> IntToString(v.value)
      [] v.type = "Boolean" -> IF v.value THEN <<"T", "R", "U", "E">>
                                          ELSE <<"F", "A", "L", "S", "E">>
      [] v.type = "Error" -> << "#" >> \o v.value

is_truthy(v) ==
    CASE v.type = "Empty" -> FALSE
      [] v.type = "Text" -> v.value # << >>
      [] v.type = "Number" -> v.value # 0
      [] v.type = "Boolean" -> v.value
      [] v.type = "Error" -> FALSE

to_number(v) ==
    CASE v.type = "Number" -> Some(v.value)
      [] v.type = "Boolean" -> IF v.value THEN Some(1) ELSE Some(0)
      [] v.type = "Text" -> parse_f64(trim(v.value))
      [] OTHER -> None

CellNew(value) == [value |-> value, formula |-> None, format |-> None]
CellWithFormula(value, formula) == [value |-> value, formula |-> Some(formula), format |-> None]

(***************************************************************************)
(* formula.rs: FormulaNode and the parser.                                 *)
(***************************************************************************)
NodeNumber(n) == [value |-> n, type |-> "Number"]
NodeText(s) == [value |-> s, type |-> "Text"]
NodeBoolean(b) == [value |-> b, type |-> "Boolean"]
NodeCellRef(c) == [type |-> "CellRef", cell |-> c]
NodeRange(s, e) == [type |-> "Range", start |-> s, end |-> e]
NodeBinaryOp(op, l, r) == [type |-> "BinaryOp", op |-> op, left |-> l, right |-> r]
NodeUnaryOp(op, x) == [type |-> "UnaryOp", op |-> op, operand |-> x]
NodeFunction(name, args) == [type |-> "Function", name |-> name, args |-> args]

Ok(v) == [value |-> v, ok |-> TRUE]
Err(e) == [ok |-> FALSE, err |-> e]
ParseOk(node, deps) == [ok |-> TRUE, node |-> node, deps |-> deps]

\* The cells of the rectangle start.row..=end.row x start.col..=end.col, in
\* the order of the nested for loops (rows outside, columns inside).
RangeCells(start, end) ==
    LET nr == IF end.row >= start.row THEN end.row - start.row + 1 ELSE 0
        nc == IF end.col >= start.col THEN end.col - start.col + 1 ELSE 0
    IN  [k \in 1..(nr * nc) |->
            CellRef(start.row + ((k - 1) \div nc), start.col + ((k - 1) % nc))]

BinaryOpOf(c) ==
    CASE c = "+" -> "Add"
      [] c = "-" -> "Sub"
      [] c = "*" -> "Mul"
      [] c = "/" -> "Div"
      [] c = "^" -> "Pow"

RECURSIVE parse_expression(_)
RECURSIVE ScanBinaryOp(_, _, _, _)
RECURSIVE ArgsLoop(_, _, _, _, _, _)

\* The loop of try_parse_binary_op: position i (1-based) scanned from the
\* right with the parenthesis depth so far.  The result is
\* Result<Option<FormulaNode>>: field some tells Some from None.
ScanBinaryOp(expr, operators, i, paren_depth) ==
    IF i = 0 THEN [ok |-> TRUE, some |-> FALSE]
    ELSE LET c == expr[i]
         IN  IF c = ")" THEN ScanBinaryOp(expr, operators, i - 1, paren_depth + 1)
             ELSE IF c = "(" THEN ScanBinaryOp(expr, operators, i - 1, paren_depth - 1)
             ELSE IF paren_depth = 0 /\ c \in operators THEN
                 LET left == trim(SubSeq(expr, 1, i - 1))
                     right == trim(SubSeq(expr, i + 1, Len(expr)))
                 IN  IF i = 1 THEN ScanBinaryOp(expr, operators, i - 1, paren_depth)
                     ELSE IF left = << >> \/ right = << >>
                          THEN ScanBinaryOp(expr, operators, i - 1, paren_depth)
                     ELSE Bind(parse_expression(left), LAMBDA l :
                            IF ~l.ok THEN l
                            ELSE Bind(parse_expression(right), LAMBDA r :
                                   IF ~r.ok THEN r
                                   ELSE [ok |-> TRUE, node |-> NodeBinaryOp(BinaryOpOf(c), l.node, r.node),
                                         deps |-> l.deps \o r.deps,
                                         some |-> TRUE]))
             ELSE ScanBinaryOp(expr, operators, i - 1, paren_depth)

try_parse_binary_op(expr, operators) == ScanBinaryOp(expr, operators, Len(expr), 0)

\* The loop of parse_function_args over the characters of args_str.
ArgsLoop(s, i, current, paren_depth, args, deps) ==
    IF i > Len(s) THEN
        IF trim(current) # << >> THEN
            Bind(parse_expression(current), LAMBDA p :
                IF ~p.ok THEN p
                ELSE [args |-> Append(args, p.node), ok |-> TRUE, deps |-> deps \o p.deps])
        ELSE [args |-> args, ok |-> TRUE, deps |-> deps]
    ELSE LET c == s[i]
         IN  IF c = "(" THEN ArgsLoop(s, i + 1, Append(current, c), paren_depth + 1, args, deps)
             ELSE IF c = ")" THEN ArgsLoop(s, i + 1, Append(current, c), paren_depth - 1, args, deps)
             ELSE IF c = "," /\ paren_depth = 0 THEN
                 Bind(parse_expression(current), LAMBDA p :
                     IF ~p.ok THEN p
                     ELSE ArgsLoop(s, i + 1, << >>, paren_depth,
                                   Append(args, p.node), deps \o p.deps))
             ELSE ArgsLoop(s, i + 1, Append(current, c), paren_depth, args, deps)

parse_function_args(args_str) ==
    IF trim(args_str) = << >> THEN [args |-> << >>, ok |-> TRUE, deps |-> << >>]
    ELSE ArgsLoop(args_str, 1, << >>, 0, << >>, << >>)

\* Mutant of ParseBinaryLevels: * and / are tried before + and -.
ParseBinaryLevelsMulFirst(expr) ==
    Bind(try_parse_binary_op(expr, {"*", "/"}), LAMBDA mul :
        IF ~mul.ok THEN mul
        ELSE IF mul.some THEN ParseOk(mul.node, mul.deps)
        ELSE Bind(try_parse_binary_op(expr, {"+", "-"}), LAMBDA add :
            IF ~add.ok THEN add
            ELSE IF add.some THEN ParseOk(add.node, add.deps)
            ELSE Bind(try_parse_binary_op(expr, {"^"}), LAMBDA pow :
                IF ~pow.ok THEN pow
                ELSE IF pow.some THEN ParseOk(pow.node, pow.deps)
                ELSE Err("Parse"))))

\* The chain of binary-operator levels at the end of parse_expression.
ParseBinaryLevels(expr) ==
    Bind(try_parse_binary_op(expr, {"+", "-"}), LAMBDA add :
        IF ~add.ok THEN add
        ELSE IF add.some THEN ParseOk(add.node, add.deps)
        ELSE Bind(try_parse_binary_op(expr, {"*", "/"}), LAMBDA mul :
            IF ~mul.ok THEN mul
            ELSE IF mul.some THEN ParseOk(mul.node, mul.deps)
            ELSE Bind(try_parse_binary_op(expr, {"^"}), LAMBDA pow :
                IF ~pow.ok THEN pow
                ELSE IF pow.some THEN ParseOk(pow.node, pow.deps)
                ELSE Err("Parse"))))

parse_expression(text) ==
    Bind(trim(text), LAMBDA expr :
    Bind(find(expr, ":"), LAMBDA colon :
    Bind(CellRefParse(SubSeq(expr, 1, colon - 1)), LAMBDA start_ref :
    Bind(CellRefParse(SubSeq(expr, colon + 1, Len(expr))), LAMBDA end_ref :
    Bind(find(expr, "("), LAMBDA paren_pos :
        IF expr = << >> THEN ParseOk(NodeNumber(0), << >>)
        ELSE IF IsSome(parse_f64(expr)) THEN ParseOk(NodeNumber(Unwrap(parse_f64(expr))), << >>)
        ELSE IF eq_ignore_ascii_case(expr, StrTrue) THEN ParseOk(NodeBoolean(TRUE), << >>)
        ELSE IF eq_ignore_ascii_case(expr, StrFalse) THEN ParseOk(NodeBoolean(FALSE), << >>)
        ELSE IF (starts_with(expr, "\"") /\ ends_with(expr, "\""))
                \/ (starts_with(expr, "'") /\ ends_with(expr, "'")) THEN
            \* expr[1..expr.len()-1] panics on a one-character string.
            IF Len(expr) < 2 THEN Err("Panic")
            ELSE ParseOk(NodeText(SubSeq(expr, 2, Len(expr) - 1)), << >>)
        ELSE IF IsSome(CellRefParse(expr)) THEN
            ParseOk(NodeCellRef(Unwrap(CellRefParse(expr))), << Unwrap(CellRefParse(expr)) >>)
        ELSE IF colon > 0 /\ IsSome(start_ref) /\ IsSome(end_ref) THEN
            ParseOk(NodeRange(Unwrap(start_ref), Unwrap(end_ref)),
                    RangeCells(Unwrap(start_ref), Unwrap(end_ref)))
        ELSE IF paren_pos > 0 /\ ends_with(expr, ")") THEN
            Bind(parse_function_args(SubSeq(expr, paren_pos + 1, Len(expr) - 1)), LAMBDA a :
                IF ~a.ok THEN a
                ELSE ParseOk(NodeFunction(to_uppercase(trim(SubSeq(expr, 1, paren_pos - 1))),
                                          a.args), a.deps))
        ELSE ParseBinaryLevels(expr))))))

\* FormulaEngine::parse: Result<Formula>.
strip_prefix_eq(s) == IF starts_with(s, "=") THEN Tail(s) ELSE s

parse(formula) ==
    Bind(parse_expression(trim(strip_prefix_eq(formula))), LAMBDA p :
        IF ~p.ok THEN p
        ELSE [formula |-> [raw |-> formula, ast |-> p.node, dependencies |-> p.deps],
              ok |-> TRUE])

(***************************************************************************)
(* grid.rs: the sparse store.  columns maps a column index to the map of   *)
(* its rows; both maps hold only the stored entries.                       *)
(***************************************************************************)
GridNew(rows, cols) == [rows |-> rows, cols |-> cols, columns |-> << >>]

get_cell(g, cell_ref) ==
    IF cell_ref.col \in DOMAIN g.columns /\ cell_ref.row \in DOMAIN g.columns[cell_ref.col]
    THEN Some(g.columns[cell_ref.col][cell_ref.row])
    ELSE None

check_bounds(g, cell_ref) ==
    IF cell_ref.row >= g.rows \/ cell_ref.col >= g.cols THEN Err("OutOfBounds") ELSE Ok(TRUE)

\* columns.entry(col).or_insert_with(IndexMap::new), then column.insert(row, cell).
ColumnsInsert(columns, cell_ref, cell) ==
    LET column == IF cell_ref.col \in DOMAIN columns THEN columns[cell_ref.col] ELSE << >>
        updated == [r \in (DOMAIN column) \cup {cell_ref.row} |->
                        IF r = cell_ref.row THEN cell ELSE column[r]]
    IN  [c \in (DOMAIN columns) \cup {cell_ref.col} |->
            IF c = cell_ref.col THEN updated ELSE columns[c]]

\* column.shift_remove(row), then the removal of a column left empty.
ColumnsRemove(columns, cell_ref) ==
    LET column == IF cell_ref.col \in DOMAIN columns THEN columns[cell_ref.col] ELSE << >>
        updated == [r \in (DOMAIN column) \ {cell_ref.row} |-> column[r]]
    IN  IF DOMAIN updated = {}
        THEN [c \in (DOMAIN columns) \ {cell_ref.col} |-> columns[c]]
        ELSE [c \in (DOMAIN columns) \cup {cell_ref.col} |->
                IF c = cell_ref.col THEN updated ELSE columns[c]]

GridOk(g) == [grid |-> g, ok |-> TRUE]

\* Mutant of set_value: an Empty value is stored like any other.
set_value_storing(g, cell_ref, value) ==
    IF ~check_bounds(g, cell_ref).ok THEN check_bounds(g, cell_ref)
    ELSE GridOk([g EXCEPT !.columns = ColumnsInsert(g.columns, cell_ref, CellNew(value))])

\* Mutant of set_value: the new cell keeps the format of the cell it replaces.
set_value_keeping(g, cell_ref, value) ==
    IF ~check_bounds(g, cell_ref).ok THEN check_bounds(g, cell_ref)
    ELSE IF value.type = "Empty"
         THEN GridOk([g EXCEPT !.columns = ColumnsRemove(g.columns, cell_ref)])
         ELSE GridOk([g EXCEPT !.columns = ColumnsInsert(g.columns, cell_ref,
                        [CellNew(value) EXCEPT !.format =
                            IF IsSome(get_cell(g, cell_ref))
                            THEN Unwrap(get_cell(g, cell_ref)).format ELSE None])])

set_value(g, cell_ref, value) ==
    IF ~check_bounds(g, cell_ref).ok THEN check_bounds(g, cell_ref)
    ELSE IF value.type = "Empty"
         THEN GridOk([g EXCEPT !.columns = ColumnsRemove(g.columns, cell_ref)])
         ELSE GridOk([g EXCEPT !.columns = ColumnsInsert(g.columns, cell_ref, CellNew(value))])

set_formula(g, cell_ref, formula) ==
    IF ~check_bounds(g, cell_ref).ok THEN check_bounds(g, cell_ref)
    ELSE GridOk([g EXCEPT !.columns =
                    ColumnsInsert(g.columns, cell_ref, CellWithFormula(Empty, formula.raw))])

\* Mutant of set_computed_value: the cell is replaced by a new cell.
set_computed_value_replacing(g, cell_ref, value) ==
    IF ~check_bounds(g, cell_ref).ok THEN check_bounds(g, cell_ref)
    ELSE GridOk([g EXCEPT !.columns = ColumnsInsert(g.columns, cell_ref, CellNew(value))])

set_computed_value(g, cell_ref, value) ==
    IF ~check_bounds(g, cell_ref).ok THEN check_bounds(g, cell_ref)
    ELSE IF IsSome(get_cell(g, cell_ref))
         THEN GridOk([g EXCEPT !.columns[cell_ref.col][cell_ref.row].value = value])
         ELSE GridOk(g)

\* CellFormat: ten optional attributes, each None until it is set.
CellFormatNone ==
    [number_format |-> None, font_bold |-> None, font_italic |-> None,
     font_underline |-> None, font_family |-> None, font_size |-> None,
     font_color |-> None, bg_color |-> None, align_h |-> None, align_v |-> None]

\* The merge of set_format: every attribute the new format sets replaces the
\* existing one.
MergeFormat(existing_format, format) ==
    [f \in DOMAIN existing_format |->
        IF IsSome(format[f]) THEN format[f] ELSE existing_format[f]]

\* Mutant of set_format: the bounds are not checked.
set_format_unchecked(g, cell_ref, format) ==
    LET cell == IF IsSome(get_cell(g, cell_ref)) THEN Unwrap(get_cell(g, cell_ref))
                ELSE CellNew(Empty)
    IN  GridOk([g EXCEPT !.columns = ColumnsInsert(g.columns, cell_ref,
                  [cell EXCEPT !.format = Some(format)])])

\* Mutant of set_format: the new format replaces the existing one.
set_format_replacing(g, cell_ref, format) ==
    IF ~check_bounds(g, cell_ref).ok THEN check_bounds(g, cell_ref)
    ELSE LET cell == IF IsSome(get_cell(g, cell_ref)) THEN Unwrap(get_cell(g, cell_ref))
                     ELSE CellNew(Empty)
         IN  GridOk([g EXCEPT !.columns = ColumnsInsert(g.columns, cell_ref,
                       [cell EXCEPT !.format = Some(format)])])

set_format(g, cell_ref, format) ==
    IF ~check_bounds(g, cell_ref).ok THEN check_bounds(g, cell_ref)
    ELSE LET cell == IF IsSome(get_cell(g, cell_ref)) THEN Unwrap(get_cell(g, cell_ref))
                     ELSE CellNew(Empty)
             merged == IF IsSome(cell.format)
                       THEN MergeFormat(Unwrap(cell.format), format)
                       ELSE format
         IN  GridOk([g EXCEPT !.columns = ColumnsInsert(g.columns, cell_ref,
                       [cell EXCEPT !.format = Some(merged)])])

cell_count(g) ==
    LET RECURSIVE Total(_)
        Total(cols) ==
            IF cols = {} THEN 0
            ELSE LET c == CHOOSE x \in cols : TRUE
                 IN  Cardinality(DOMAIN g.columns[c]) + Total(cols \ {c})
    IN  Total(DOMAIN g.columns)

\* GridDiff::from_cells: one CellData per listed cell that is stored.
CellData(cell_ref, cell) ==
    [value |-> display(cell.value), row |-> cell_ref.row, col |-> cell_ref.col,
     formula |-> cell.formula, format |-> cell.format]

RECURSIVE from_cells(_, _)
from_cells(g, cells) ==
    IF cells = << >> THEN << >>
    ELSE LET c == get_cell(g, Head(cells))
         IN  (IF IsSome(c) THEN << CellData(Head(cells), Unwrap(c)) >> ELSE << >>)
             \o from_cells(g, Tail(cells))

(***************************************************************************)
(* formula.rs: the evaluator.                                              *)
(***************************************************************************)
TypeError == Err("TypeError")

RECURSIVE IntPow(_, _)
IntPow(b, e) == IF e <= 0 THEN 1 ELSE b * IntPow(b, e - 1)

RECURSIVE SumSeq(_)
SumSeq(s) == IF s = << >> THEN 0 ELSE Head(s) + SumSeq(Tail(s))

RECURSIVE MinSeq(_)
MinSeq(s) ==
    IF Len(s) = 1 THEN s[1]
    ELSE LET m == MinSeq(Tail(s)) IN IF Head(s) < m THEN Head(s) ELSE m

RECURSIVE MaxSeq(_)
MaxSeq(s) ==
    IF Len(s) = 1 THEN s[1]
    ELSE LET m == MaxSeq(Tail(s)) IN IF Head(s) > m THEN Head(s) ELSE m

Abs(n) == IF n < 0 THEN 0 - n ELSE n

\* Arithmetic of two numeric operands (both already coerced).
Arith(op, l, r) ==
    CASE op = "Add" -> Ok(Number(l + r))
      [] op = "Sub" -> Ok(Number(l - r))
      [] op = "Mul" -> Ok(Number(l * r))
      [] op = "Div" -> IF r = 0 THEN Err("DivisionByZero") ELSE Ok(Number(l \div r))
      [] op = "Pow" -> Ok(Number(IntPow(l, r)))

Compare(op, l, r) ==
    CASE op = "Lt" -> l < r
      [] op = "Le" -> l <= r
      [] op = "Gt" -> l > r
      [] op = "Ge" -> l >= r

\* PartialEq of CellValue: the same variant holding the same payload.
CellValueEq(a, b) == a.type = b.type /\ a = b

evaluate_binary_op(op, left, right) ==
    LET left_num == to_number(left)
        right_num == to_number(right)
        both == IsSome(left_num) /\ IsSome(right_num)
    IN  IF op \in {"Add", "Sub", "Mul", "Div", "Pow"} THEN
            IF both THEN Arith(op, Unwrap(left_num), Unwrap(right_num)) ELSE TypeError
        ELSE IF op = "Eq" THEN Ok(Boolean(CellValueEq(left, right)))
        ELSE IF op = "Ne" THEN Ok(Boolean(~CellValueEq(left, right)))
        ELSE IF op \in {"Lt", "Le", "Gt", "Ge"} THEN
            IF both THEN Ok(Boolean(Compare(op, Unwrap(left_num), Unwrap(right_num))))
            ELSE Ok(Boolean(FALSE))
        ELSE Ok(Text(display(left) \o display(right)))

evaluate_unary_op(op, val) ==
    LET n == to_number(val)
    IN  IF ~IsSome(n) THEN TypeError
        ELSE IF op = "Neg" THEN Ok(Number(0 - Unwrap(n)))
        ELSE Ok(Number(Unwrap(n) \div 100))

FnNames == [SUM |-> <<"S", "U", "M">>, AVERAGE |-> <<"A", "V", "E", "R", "A", "G", "E">>,
            AVG |-> <<"A", "V", "G">>, MIN |-> <<"M", "I", "N">>, MAX |-> <<"M", "A", "X">>,
            COUNT |-> <<"C", "O", "U", "N", "T">>, IFF |-> <<"I", "F">>,
            ABS |-> <<"A", "B", "S">>, ROUND |-> <<"R", "O", "U", "N", "D">>,
            SQRT |-> <<"S", "Q", "R", "T">>, POWER |-> <<"P", "O", "W", "E", "R">>,
            POW |-> <<"P", "O", "W">>]

RECURSIVE evaluate(_, _)
RECURSIVE collect_numbers(_, _)

\* The numbers of the stored cells of a range, in iteration order.
RECURSIVE RangeNumbers(_, _)
RangeNumbers(cells, g) ==
    IF cells = << >> THEN << >>
    ELSE LET cell == get_cell(g, Head(cells))
             n == IF IsSome(cell) THEN to_number(Unwrap(cell).value) ELSE None
         IN  n \o RangeNumbers(Tail(cells), g)

\* Mutant of collect_numbers: an argument whose evaluation fails counts as 0.
RECURSIVE collect_numbers_zero(_, _)
collect_numbers_zero(args, g) ==
    IF args = << >> THEN << >>
    ELSE LET arg == Head(args)
             here == IF arg.type = "Range" THEN RangeNumbers(RangeCells(arg.start, arg.end), g)
                     ELSE LET val == evaluate(arg, g)
                          IN  IF val.ok THEN to_number(val.value) ELSE Some(0)
         IN  here \o collect_numbers_zero(Tail(args), g)

collect_numbers(args, g) ==
    IF args = << >> THEN << >>
    ELSE LET arg == Head(args)
             here == IF arg.type = "Range" THEN RangeNumbers(RangeCells(arg.start, arg.end), g)
                     ELSE LET val == evaluate(arg, g)
                          IN  IF val.ok THEN to_number(val.value) ELSE None
         IN  here \o collect_numbers(Tail(args), g)

\* Mutant of fn_sum: the numbers are counted, not added.
fn_sum_counting(args, g) == Ok(Number(Len(collect_numbers(args, g))))

fn_sum(args, g) == Ok(Number(SumSeq(collect_numbers(args, g))))

fn_average(args, g) ==
    Bind(collect_numbers(args, g), LAMBDA numbers :
        IF numbers = << >> THEN Ok(Error(StrDivZero))
        ELSE Ok(Number(SumSeq(numbers) \div Len(numbers))))

fn_min(args, g) ==
    Bind(collect_numbers(args, g), LAMBDA numbers :
        IF numbers = << >> THEN Err("ArgumentCount") ELSE Ok(Number(MinSeq(numbers))))

fn_max(args, g) ==
    Bind(collect_numbers(args, g), LAMBDA numbers :
        IF numbers = << >> THEN Err("ArgumentCount") ELSE Ok(Number(MaxSeq(numbers))))

fn_count(args, g) == Ok(Number(Len(collect_numbers(args, g))))

fn_if(args, g) ==
    IF Len(args) < 2 \/ Len(args) > 3 THEN Err("ArgumentCount")
    ELSE LET condition == evaluate(args[1], g)
         IN  IF ~condition.ok THEN condition
             ELSE IF is_truthy(condition.value) THEN evaluate(args[2], g)
             ELSE IF Len(args) > 2 THEN evaluate(args[3], g)
             ELSE Ok(Boolean(FALSE))

fn_abs(args, g) ==
    IF Len(args) # 1 THEN Err("ArgumentCount")
    ELSE LET val == evaluate(args[1], g)
         IN  IF ~val.ok THEN val
             ELSE IF IsSome(to_number(val.value)) THEN Ok(Number(Abs(Unwrap(to_number(val.value)))))
             ELSE TypeError

\* On integers ROUND with decimals >= 0 is the identity; with decimals < 0 it
\* rounds half away from zero to a multiple of 10^(-decimals).
fn_round(args, g) ==
    IF args = << >> \/ Len(args) > 2 THEN Err("ArgumentCount")
    ELSE LET val == evaluate(args[1], g)
             dec == IF Len(args) > 1 THEN evaluate(args[2], g) ELSE Ok(Number(0))
             decimals == IF IsSome(to_number(dec.value)) THEN Unwrap(to_number(dec.value)) ELSE 0
             m == IntPow(10, 0 - decimals)
             n == Unwrap(to_number(val.value))
         IN  IF ~val.ok THEN val
             ELSE IF ~dec.ok THEN dec
             ELSE IF ~IsSome(to_number(val.value)) THEN TypeError
             ELSE IF decimals >= 0 THEN Ok(Number(n))
             ELSE IF n >= 0 THEN Ok(Number(((2 * n + m) \div (2 * m)) * m))
             ELSE Ok(Number(0 - (((2 * (0 - n) + m) \div (2 * m)) * m)))

\* The integer square root of a non-negative number (f64::sqrt on the
\* perfect squares; NaN for negative input has no integer counterpart).
fn_sqrt(args, g) ==
    IF Len(args) # 1 THEN Err("ArgumentCount")
    ELSE LET val == evaluate(args[1], g)
             n == Unwrap(to_number(val.value))
         IN  IF ~val.ok THEN val
             ELSE IF ~IsSome(to_number(val.value)) THEN TypeError
             ELSE Ok(Number(CHOOSE k \in 0..Abs(n) : k * k <= Abs(n) /\ (k + 1) * (k + 1) > Abs(n)))

fn_power(args, g) ==
    IF Len(args) # 2 THEN Err("ArgumentCount")
    ELSE LET base == evaluate(args[1], g)
             exp == evaluate(args[2], g)
         IN  IF ~base.ok THEN base
             ELSE IF ~exp.ok THEN exp
             ELSE IF IsSome(to_number(base.value)) /\ IsSome(to_number(exp.value))
                  THEN Ok(Number(IntPow(Unwrap(to_number(base.value)), Unwrap(to_number(exp.value)))))
             ELSE TypeError

evaluate_function(name, args, g) ==
    CASE name = FnNames.SUM -> fn_sum(args, g)
      [] name \in {FnNames.AVERAGE, FnNames.AVG} -> fn_average(args, g)
      [] name = FnNames.MIN -> fn_min(args, g)
      [] name = FnNames.MAX -> fn_max(args, g)
      [] name = FnNames.COUNT -> fn_count(args, g)
      [] name = FnNames.IFF -> fn_if(args, g)
      [] name = FnNames.ABS -> fn_abs(args, g)
      [] name = FnNames.ROUND -> fn_round(args, g)
      [] name = FnNames.SQRT -> fn_sqrt(args, g)
      [] name \in {FnNames.POWER, FnNames.POW} -> fn_power(args, g)
      [] OTHER -> Err("UnknownFunction")

evaluate(node, g) ==
    CASE node.type = "Number" -> Ok(Number(node.value))
      [] node.type = "Text" -> Ok(Text(node.value))
      [] node.type = "Boolean" -> Ok(Boolean(node.value))
      [] node.type = "CellRef" ->
            LET c == get_cell(g, node.cell)
            IN  IF IsSome(c) THEN Ok(Unwrap(c).value) ELSE Ok(Empty)
      [] node.type = "Range" -> TypeError
      [] node.type = "BinaryOp" ->
            Bind(evaluate(node.left, g), LAMBDA left_val :
                IF ~left_val.ok THEN left_val
                ELSE Bind(evaluate(node.right, g), LAMBDA right_val :
                    IF ~right_val.ok THEN right_val
                    ELSE evaluate_binary_op(node.op, left_val.value, right_val.value)))
      [] node.type = "UnaryOp" ->
            Bind(evaluate(node.operand, g), LAMBDA val :
                IF ~val.ok THEN val ELSE evaluate_unary_op(node.op, val.value))
      [] node.type = "Function" -> evaluate_function(node.name, node.args, g)

(***************************************************************************)
(* formula.rs: the dependency graph.  dep_graph holds the node set (the    *)
(* keys of cell_to_node, one graph node each) and the edges as a bag: the  *)
(* map from an edge <<dependency, dependent>> to the number of parallel    *)
(* edges petgraph holds for it.                                            *)
(***************************************************************************)
GraphNew == [nodes |-> {}, edges |-> << >>]
EngineNew == [formulas |-> << >>, dep_graph |-> GraphNew]

Edges(dg) == DOMAIN dg.edges

\* dep_graph.neighbors(n): the targets of the outgoing edges of n.
neighbors(dg, n) == {e[2] : e \in {x \in Edges(dg) : x[1] = n}}

\* The sources of the incoming edges of n.
Incoming(dg, n) == {e[1] : e \in {x \in Edges(dg) : x[2] = n}}

Occurrences(seq, x) == Len(SelectSeq(seq, LAMBDA y : y = x))

\* Mutant of register_formula: the edges that leave the cell are removed,
\* not the edges that enter it.
register_formula_outgoing(eng, cell, formula) ==
    LET deps == formula.dependencies
        kept == {e \in Edges(eng.dep_graph) : e[1] # cell}
        added == {<<d, cell>> : d \in Range(deps)}
        edges == [e \in kept \cup added |->
                    IF e \in added THEN Occurrences(deps, e[1]) ELSE eng.dep_graph.edges[e]]
    IN  [formulas |-> [c \in (DOMAIN eng.formulas) \cup {cell} |->
                          IF c = cell THEN formula ELSE eng.formulas[c]],
         dep_graph |-> [nodes |-> eng.dep_graph.nodes \cup {cell} \cup Range(deps),
                        edges |-> edges]]

\* Mutant of register_formula: the old incoming edges of the cell are kept.
register_formula_keeping(eng, cell, formula) ==
    LET deps == formula.dependencies
        added == {<<d, cell>> : d \in Range(deps)}
        edges == [e \in Edges(eng.dep_graph) \cup added |->
                    IF e \in added THEN Occurrences(deps, e[1]) ELSE eng.dep_graph.edges[e]]
    IN  [formulas |-> [c \in (DOMAIN eng.formulas) \cup {cell} |->
                          IF c = cell THEN formula ELSE eng.formulas[c]],
         dep_graph |-> [nodes |-> eng.dep_graph.nodes \cup {cell} \cup Range(deps),
                        edges |-> edges]]

register_formula(eng, cell, formula) ==
    LET deps == formula.dependencies
        kept == {e \in Edges(eng.dep_graph) : e[2] # cell}
        added == {<<d, cell>> : d \in Range(deps)}
        edges == [e \in kept \cup added |->
                    IF e \in added THEN Occurrences(deps, e[1]) ELSE eng.dep_graph.edges[e]]
        inserted == [c \in (DOMAIN eng.formulas) \cup {cell} |->
                        IF c = cell THEN formula ELSE eng.formulas[c]]
    IN  [formulas |-> inserted,
         dep_graph |-> [nodes |-> eng.dep_graph.nodes \cup {cell} \cup Range(deps),
                        edges |-> edges]]

\* The traversal of recalculate: the nodes discovered from the start node,
\* the start node itself excluded (it is marked visited before the loop).
RECURSIVE Visit(_, _, _)
Visit(dg, to_visit, visited) ==
    IF to_visit = {} THEN visited
    ELSE LET found == (UNION {neighbors(dg, n) : n \in to_visit}) \ visited
         IN  Visit(dg, found, visited \cup found)

Dependents(dg, node) == Visit(dg, {node}, {node}) \ {node}

RECURSIVE Orderings(_)
Orderings(S) ==
    IF S = {} THEN {<< >>}
    ELSE UNION {{<< x >> \o p : p \in Orderings(S \ {x})} : x \in S}

Position(seq, x) == CHOOSE i \in 1..Len(seq) : seq[i] = x

\* Mutant of toposort: an order of the nodes that ignores the edges.
toposort_unordered(dg) == Orderings(dg.nodes)

\* petgraph::algo::toposort: some order of all nodes in which every edge goes
\* from an earlier to a later node, and Err(Cycle) when there is none (a
\* self-loop included).  Which order is returned is not fixed by the source:
\* the result is the set of the orders, empty for Err.
toposort(dg) ==
    {s \in Orderings(dg.nodes) :
        \A e \in Edges(dg) : Position(s, e[1]) < Position(s, e[2])}

\* Mutant of SortedCells: the affected cells in reverse dependency order.
SortedCellsReversed(sorted, affected) ==
    LET kept == SelectSeq(sorted, LAMBDA cell : cell \in affected)
    IN  [i \in 1..Len(kept) |-> kept[Len(kept) + 1 - i]]

\* Mutant of SortedCells: the whole order, not filtered to the affected set.
SortedCellsUnfiltered(sorted, affected) == sorted

\* sorted.into_iter().filter(|cell| affected.contains(cell)).collect()
SortedCells(sorted, affected) == SelectSeq(sorted, LAMBDA cell : cell \in affected)

\* The loop of recalculate over sorted_cells from position i on.
RECURSIVE RecalcLoop(_, _, _, _)
RecalcLoop(g, formula_map, sorted_cells, i) ==
    IF i > Len(sorted_cells) THEN [grid |-> g, ok |-> TRUE, cells |-> sorted_cells]
    ELSE LET cell == sorted_cells[i]
         IN  IF cell \in DOMAIN formula_map THEN
                 Bind(evaluate(formula_map[cell].ast, g), LAMBDA value :
                     IF ~value.ok THEN [grid |-> g, ok |-> FALSE, err |-> value.err]
                     ELSE Bind(set_computed_value(g, cell, value.value), LAMBDA written :
                         IF ~written.ok THEN [grid |-> g, ok |-> FALSE, err |-> "Grid"]
                         ELSE RecalcLoop(written.grid, formula_map, sorted_cells, i + 1)))
             ELSE RecalcLoop(g, formula_map, sorted_cells, i + 1)

\* The affected set of recalculate: changed and what the traversal finds.
AffectedSet(eng, changed) ==
    {changed} \cup (IF changed \in eng.dep_graph.nodes
                    THEN Dependents(eng.dep_graph, changed) ELSE {})

\* Mutant of recalculate: a cycle is not reported; the pass evaluates nothing
\* and returns Ok.
recalculate_unchecked(g, eng, changed) ==
    LET orders == toposort(eng.dep_graph)
    IN  IF orders = {} THEN {[grid |-> g, ok |-> TRUE, cells |-> << >>]}
        ELSE {RecalcLoop(g, eng.formulas, SortedCells(sorted, AffectedSet(eng, changed)), 1)
              : sorted \in orders}

\* Mutant of recalculate: the changed cell is evaluated and written before
\* the graph is sorted, so a cycle is reported after a write.
recalculate_eager(g, eng, changed) ==
    LET orders == toposort(eng.dep_graph)
        first == RecalcLoop(g, eng.formulas, << changed >>, 1)
    IN  IF orders = {} THEN {[grid |-> first.grid, ok |-> FALSE, err |-> "CircularReference"]}
        ELSE {RecalcLoop(g, eng.formulas, SortedCells(sorted, AffectedSet(eng, changed)), 1)
              : sorted \in orders}

\* Mutant of recalculate: a pass that fails gives back the grid it started
\* from.
recalculate_rollback(g, eng, changed) ==
    LET affected == AffectedSet(eng, changed)
        orders == toposort(eng.dep_graph)
    IN  IF orders = {} THEN {[grid |-> g, ok |-> FALSE, err |-> "CircularReference"]}
        ELSE {Bind(RecalcLoop(g, eng.formulas, SortedCells(sorted, affected), 1), LAMBDA r :
                      IF r.ok THEN r ELSE [r EXCEPT !.grid = g])
              : sorted \in orders}

\* FormulaEngine::recalculate: the set of its possible outcomes, one per
\* order toposort may return.
recalculate(g, eng, changed) ==
    LET affected == AffectedSet(eng, changed)
        orders == toposort(eng.dep_graph)
    IN  IF orders = {} THEN {[grid |-> g, ok |-> FALSE, err |-> "CircularReference"]}
        ELSE {RecalcLoop(g, eng.formulas, SortedCells(sorted, affected), 1) : sorted \in orders}

(***************************************************************************)
(* grid.rs: Grid::apply_patch.                                             *)
(***************************************************************************)
\* The first loop: the updates from position i on.
RECURSIVE ApplyUpdates(_, _, _, _, _)
ApplyUpdates(g, eng, updates, i, affected) ==
    IF i > Len(updates) THEN [grid |-> g, ok |-> TRUE, eng |-> eng, affected |-> affected]
    ELSE LET update == updates[i]
             cell_ref == CellRef(update.row, update.col)
             touched == Append(affected, cell_ref)
         IN  IF IsSome(update.formula) THEN
                 Bind(parse(Unwrap(update.formula)), LAMBDA parsed :
                     IF ~parsed.ok THEN [grid |-> g, ok |-> FALSE, err |-> parsed.err, eng |-> eng]
                     ELSE Bind(register_formula(eng, cell_ref, parsed.formula), LAMBDA registered :
                          Bind(set_formula(g, cell_ref, parsed.formula), LAMBDA stored :
                              IF ~stored.ok
                              THEN [grid |-> g, ok |-> FALSE, err |-> stored.err, eng |-> registered]
                              ELSE ApplyUpdates(stored.grid, registered, updates, i + 1, touched))))
             ELSE IF IsSome(update.value) THEN
                 Bind(set_value(g, cell_ref, CellValueParse(Unwrap(update.value))), LAMBDA stored :
                     IF ~stored.ok THEN [grid |-> g, ok |-> FALSE, err |-> stored.err, eng |-> eng]
                     ELSE ApplyUpdates(stored.grid, eng, updates, i + 1, touched))
             ELSE ApplyUpdates(g, eng, updates, i + 1, touched)

\* for a in recalc_affected { if !affected.contains(&a) { affected.push(a) } }
RECURSIVE FoldAffected(_, _)
FoldAffected(affected, recalc_affected) ==
    IF recalc_affected = << >> THEN affected
    ELSE FoldAffected(IF Head(recalc_affected) \in Range(affected) THEN affected
                      ELSE Append(affected, Head(recalc_affected)),
                      Tail(recalc_affected))

\* The second loop: the recalculation of cells_to_recalc from position i on.
RECURSIVE RecalcTouched(_, _, _, _, _)
RecalcTouched(g, eng, cells_to_recalc, i, affected) ==
    IF i > Len(cells_to_recalc)
    THEN {[grid |-> g, ok |-> TRUE, cells |-> affected, eng |-> eng]}
    ELSE UNION {IF r.ok
                THEN RecalcTouched(r.grid, eng, cells_to_recalc, i + 1,
                                   FoldAffected(affected, r.cells))
                ELSE {[grid |-> r.grid, ok |-> FALSE, err |-> r.err, eng |-> eng]}
                : r \in recalculate(g, eng, cells_to_recalc[i])}

\* Mutant of apply_patch: a patch that fails gives back the grid and the
\* engine it started from.
apply_patch_transactional(g, eng, patch) ==
    Bind(ApplyUpdates(g, eng, patch, 1, << >>), LAMBDA applied :
        IF ~applied.ok THEN {[applied EXCEPT !.grid = g, !.eng = eng]}
        ELSE {IF r.ok THEN r ELSE [r EXCEPT !.grid = g, !.eng = eng]
              : r \in RecalcTouched(applied.grid, applied.eng, applied.affected, 1,
                                    applied.affected)})

apply_patch(g, eng, patch) ==
    Bind(ApplyUpdates(g, eng, patch, 1, << >>), LAMBDA applied :
        IF ~applied.ok THEN {applied}
        ELSE RecalcTouched(applied.grid, applied.eng, applied.affected, 1, applied.affected))

(***************************************************************************)
(* lib.rs: SheetEngine::set_cell, up to the recalculation.                 *)
(***************************************************************************)
\* The classification and the store of the edit: Result<Grid>.
SetCellStore(g, eng, cell_ref, value) ==
    IF starts_with(value, "=") THEN
        Bind(parse(value), LAMBDA formula :
            IF ~formula.ok THEN formula ELSE set_formula(g, cell_ref, formula.formula))
    ELSE set_value(g, cell_ref, CellValueParse(value))

set_cell(g, eng, row, col, value) ==
    Bind(SetCellStore(g, eng, CellRef(row, col), value), LAMBDA stored :
        IF ~stored.ok THEN {[grid |-> g, ok |-> FALSE, err |-> stored.err, eng |-> eng]}
        ELSE {IF r.ok THEN [grid |-> r.grid, ok |-> TRUE, cells |-> r.cells, eng |-> eng]
                      ELSE [grid |-> r.grid, ok |-> FALSE, err |-> r.err, eng |-> eng]
              : r \in recalculate(stored.grid, eng, CellRef(row, col))})

(***************************************************************************)
(* The inputs of the model: cells, literal texts, formula texts, patches.  *)
(***************************************************************************)
A1 == CellRef(0, 0)
B1 == CellRef(0, 1)
C1 == CellRef(0, 2)

TargetCells == {A1, B1, C1}

Lit5 == << "5" >>
Lit7 == << "7" >>
LitEmpty == << >>
FormulaB1 == << "=", "B", "1" >>
FormulaA1Times2 == << "=", "A", "1", "*", "2" >>
FormulaA1PlusB1 == << "=", "A", "1", "+", "B", "1" >>
FormulaDivZero == << "=", "1", "0", "/", "0" >>
FormulaPrecedence == << "=", "1", "+", "2", "*", "3" >>

LiteralTexts == {Lit5, Lit7}
FormulaTexts == {FormulaB1, FormulaA1Times2, FormulaA1PlusB1, FormulaDivZero}
Texts == LiteralTexts \cup FormulaTexts

\* CellUpdate { row, col, value, formula }
CellUpdate(cell, value, formula) ==
    [value |-> value, row |-> cell.row, col |-> cell.col, formula |-> formula]

\* The update a caller builds for an edit text: a formula when it begins
\* with '=', a value otherwise.
UpdateOf(cell, text) ==
    IF starts_with(text, "=") THEN CellUpdate(cell, None, Some(text))
    ELSE CellUpdate(cell, Some(text), None)

SinglePatches == {<< UpdateOf(c, t) >> : c \in TargetCells, t \in Texts}

MultiPatches ==
    { << UpdateOf(A1, Lit5), UpdateOf(B1, FormulaA1Times2) >>,
      << UpdateOf(B1, FormulaA1Times2), UpdateOf(C1, FormulaA1PlusB1) >>,
      << UpdateOf(A1, FormulaB1), UpdateOf(B1, FormulaA1Times2) >>,
      << UpdateOf(C1, FormulaA1PlusB1), UpdateOf(A1, Lit7) >>,
      << UpdateOf(A1, LitEmpty) >>,
      << UpdateOf(A1, FormulaPrecedence) >> }

Patches == SinglePatches \cup MultiPatches

(***************************************************************************)
(* The state machine: one Grid and one FormulaEngine, as SheetEngine::new  *)
(* builds them, driven through set_cell, apply_patch and recalculate.      *)
(* lastCall and lastResult record the last operation and what it returned.  *)
(***************************************************************************)
Engine == [formulas |-> formulas, dep_graph |-> dep_graph]

Call(op, cell, text, patch) ==
    [row |-> cell.row, col |-> cell.col, text |-> text, op |-> op, patch |-> patch]

\* The cell the last call names.
LastCell == CellRef(lastCall.row, lastCall.col)

\* What the caller receives: the affected cells and, from the facade, the
\* GridDiff built from them.
Returned(r, with_diff) ==
    IF r.ok THEN [ok |-> TRUE, err |-> "", cells |-> r.cells,
                  diff |-> IF with_diff THEN from_cells(r.grid, r.cells) ELSE << >>]
    ELSE [ok |-> FALSE, err |-> r.err, cells |-> << >>, diff |-> << >>]

Init ==
    /\ grid = GridNew(Rows, Cols)
    /\ formulas = EngineNew.formulas
    /\ dep_graph = EngineNew.dep_graph
    /\ lastCall = Call("new", A1, << >>, << >>)
    /\ lastResult = [ok |-> TRUE, err |-> "", cells |-> << >>, diff |-> << >>]
    /\ ops = 0

SetCell(cell, text) ==
    /\ ops < MaxOps
    /\ \E r \in set_cell(grid, Engine, cell.row, cell.col, text) :
          /\ grid' = r.grid
          /\ formulas' = r.eng.formulas
          /\ dep_graph' = r.eng.dep_graph
          /\ lastResult' = Returned(r, TRUE)
    /\ lastCall' = Call("set_cell", cell, text, << >>)
    /\ ops' = ops + 1

ApplyPatch(patch) ==
    /\ ops < MaxOps
    /\ \E r \in apply_patch(grid, Engine, patch) :
          /\ grid' = r.grid
          /\ formulas' = r.eng.formulas
          /\ dep_graph' = r.eng.dep_graph
          /\ lastResult' = Returned(r, TRUE)
    /\ lastCall' = Call("apply_patch", CellRef(patch[1].row, patch[1].col), << >>, patch)
    /\ ops' = ops + 1

Recalculate(changed) ==
    /\ ops < MaxOps
    /\ \E r \in recalculate(grid, Engine, changed) :
          /\ grid' = r.grid
          /\ lastResult' = Returned(r, FALSE)
    /\ lastCall' = Call("recalculate", changed, << >>, << >>)
    /\ ops' = ops + 1
    /\ UNCHANGED <<formulas, dep_graph>>

Next ==
    \/ \E cell \in TargetCells, text \in Texts : SetCell(cell, text)
    \/ \E patch \in Patches : ApplyPatch(patch)
    \/ \E changed \in TargetCells : Recalculate(changed)

Spec == Init /\ [][Next]_vars

\* The edit entry points alone.
NextEdit ==
    \/ \E cell \in TargetCells, text \in Texts : SetCell(cell, text)
    \/ \E patch \in Patches : ApplyPatch(patch)

SpecEdit == Init /\ [][NextEdit]_vars

(***************************************************************************)
(* The patch session: apply_patch with updates that fail, that repeat a    *)
(* cell or that carry neither value nor formula, and set_cell with texts   *)
(* that fail.                                                              *)
(***************************************************************************)
\* The first cell right of the grid: check_bounds rejects it.
OutCell == CellRef(0, Cols)

\* Formula texts that fail: at evaluation with UnknownFunction and with
\* ArgumentCount, and in the parser.
ErrorFormulas ==
    [unknown_fn |-> << "=", "F", "O", "O", "(", "1", ")" >>,
     bad_arity |-> << "=", "A", "B", "S", "(", "1", ",", "2", ")" >>,
     broken |-> << "=", "1", "+" >>]

\* CellUpdate { value: None, formula: None }
NoOp(cell) == CellUpdate(cell, None, None)

PatchInputs ==
    { << UpdateOf(C1, FormulaA1PlusB1) >>,
      << UpdateOf(A1, Lit5), UpdateOf(B1, FormulaPrecedence) >>,
      << UpdateOf(B1, FormulaPrecedence), UpdateOf(A1, Lit5) >>,
      << UpdateOf(A1, Lit5), UpdateOf(A1, Lit7) >>,
      << NoOp(A1) >>,
      << UpdateOf(A1, Lit7), NoOp(B1) >>,
      << UpdateOf(A1, ErrorFormulas.unknown_fn) >>,
      << UpdateOf(A1, ErrorFormulas.bad_arity) >>,
      << UpdateOf(A1, ErrorFormulas.broken) >>,
      << UpdateOf(OutCell, FormulaB1) >>,
      << UpdateOf(OutCell, Lit5) >>,
      << UpdateOf(B1, FormulaA1Times2) >>,
      << UpdateOf(A1, Lit5) >> }

NextPatch ==
    \/ \E patch \in PatchInputs : ApplyPatch(patch)
    \/ \E cell \in {A1, OutCell}, text \in {Lit5, ErrorFormulas.broken, ErrorFormulas.unknown_fn} :
          SetCell(cell, text)

SpecPatch == Init /\ [][NextPatch]_vars

(***************************************************************************)
(* The engine session: FormulaEngine::parse and register_formula called    *)
(* on the engine itself, and recalculate.                                  *)
(***************************************************************************)
RegisterFormula(cell, text) ==
    /\ ops < MaxOps
    /\ Bind(parse(text), LAMBDA parsed :
          /\ parsed.ok
          /\ Bind(register_formula(Engine, cell, parsed.formula), LAMBDA registered :
                /\ formulas' = registered.formulas
                /\ dep_graph' = registered.dep_graph))
    /\ lastCall' = Call("register_formula", cell, text, << >>)
    /\ lastResult' = [ok |-> TRUE, err |-> "", cells |-> << >>, diff |-> << >>]
    /\ ops' = ops + 1
    /\ UNCHANGED grid

NextEngine ==
    \/ \E cell \in TargetCells, text \in FormulaTexts \cup {FormulaPrecedence} :
          RegisterFormula(cell, text)
    \/ \E changed \in TargetCells : Recalculate(changed)

SpecEngine == Init /\ [][NextEngine]_vars

(***************************************************************************)
(* The session after a cycle: the engine as the patch A1 = =B1, B1 = =A1*2 *)
(* leaves it, then driven through apply_patch with one formula, set_cell   *)
(* with a literal and recalculate.                                         *)
(***************************************************************************)
InitCycle ==
    \E r \in apply_patch(GridNew(Rows, Cols), EngineNew,
                         << UpdateOf(A1, FormulaB1), UpdateOf(B1, FormulaA1Times2) >>) :
        /\ grid = r.grid
        /\ formulas = r.eng.formulas
        /\ dep_graph = r.eng.dep_graph
        /\ lastCall = Call("apply_patch", A1, << >>,
                           << UpdateOf(A1, FormulaB1), UpdateOf(B1, FormulaA1Times2) >>)
        /\ lastResult = Returned(r, TRUE)
        /\ ops = 0

NextCycle ==
    \/ \E cell \in TargetCells, text \in FormulaTexts \cup {FormulaPrecedence} :
          ApplyPatch(<< UpdateOf(cell, text) >>)
    \/ \E cell \in TargetCells, text \in LiteralTexts : SetCell(cell, text)
    \/ \E changed \in TargetCells : Recalculate(changed)

SpecCycle == InitCycle /\ [][NextCycle]_vars

(***************************************************************************)
(* The grid session: Grid::set_value, set_formula, set_computed_value and   *)
(* set_format called on the grid directly, in and out of bounds.  The call *)
(* records the value or the format it passes.                              *)
(***************************************************************************)
GridReturned(r) ==
    [ok |-> r.ok, err |-> IF r.ok THEN "" ELSE r.err, cells |-> << >>, diff |-> << >>]

GridValues == << Empty, Number(5), Number(7), Text(<<"x">>) >>

GridFormats ==
    {[CellFormatNone EXCEPT !.font_bold = Some(TRUE)],
     [CellFormatNone EXCEPT !.font_bold = Some(FALSE)],
     [CellFormatNone EXCEPT !.number_format = Some(<<"0", ".", "0">>)]}

SetValue(cell, value) ==
    /\ ops < MaxOps
    /\ Bind(set_value(grid, cell, value), LAMBDA r :
          /\ grid' = (IF r.ok THEN r.grid ELSE grid)
          /\ lastResult' = GridReturned(r))
    /\ lastCall' = [value |-> value, row |-> cell.row, col |-> cell.col,
                    text |-> << >>, op |-> "set_value", patch |-> << >>]
    /\ ops' = ops + 1
    /\ UNCHANGED <<formulas, dep_graph>>

SetFormula(cell, text) ==
    /\ ops < MaxOps
    /\ Bind(set_formula(grid, cell, parse(text).formula), LAMBDA r :
          /\ grid' = (IF r.ok THEN r.grid ELSE grid)
          /\ lastResult' = GridReturned(r))
    /\ lastCall' = Call("set_formula", cell, text, << >>)
    /\ ops' = ops + 1
    /\ UNCHANGED <<formulas, dep_graph>>

SetComputedValue(cell, value) ==
    /\ ops < MaxOps
    /\ Bind(set_computed_value(grid, cell, value), LAMBDA r :
          /\ grid' = (IF r.ok THEN r.grid ELSE grid)
          /\ lastResult' = GridReturned(r))
    /\ lastCall' = [value |-> value, row |-> cell.row, col |-> cell.col,
                    text |-> << >>, op |-> "set_computed_value", patch |-> << >>]
    /\ ops' = ops + 1
    /\ UNCHANGED <<formulas, dep_graph>>

SetFormat(cell, format) ==
    /\ ops < MaxOps
    /\ Bind(set_format(grid, cell, format), LAMBDA r :
          /\ grid' = (IF r.ok THEN r.grid ELSE grid)
          /\ lastResult' = GridReturned(r))
    /\ lastCall' = [row |-> cell.row, col |-> cell.col, text |-> << >>,
                    format |-> format, op |-> "set_format", patch |-> << >>]
    /\ ops' = ops + 1
    /\ UNCHANGED <<formulas, dep_graph>>

NextGrid ==
    \/ \E cell \in TargetCells \cup {OutCell}, i \in DOMAIN GridValues :
          SetValue(cell, GridValues[i])
    \/ \E cell \in {A1, B1, OutCell}, text \in {FormulaB1, FormulaA1Times2} :
          SetFormula(cell, text)
    \/ \E cell \in {A1, OutCell, CellRef(Rows, 0)}, i \in {1, 2} :
          SetComputedValue(cell, GridValues[i])
    \/ \E cell \in {A1, B1, OutCell, CellRef(Rows, 0)}, format \in GridFormats :
          SetFormat(cell, format)

SpecGrid == Init /\ [][NextGrid]_vars

\* The grid session started from a sheet whose cell A1 bears the formula =B1
\* and a bold format, as set_formula and set_format leave it.
InitReplace ==
    /\ grid = set_format(set_formula(GridNew(Rows, Cols), A1, parse(FormulaB1).formula).grid,
                         A1, [CellFormatNone EXCEPT !.font_bold = Some(TRUE)]).grid
    /\ formulas = EngineNew.formulas
    /\ dep_graph = EngineNew.dep_graph
    /\ lastCall = [row |-> 0, col |-> 0, text |-> << >>,
                   format |-> [CellFormatNone EXCEPT !.font_bold = Some(TRUE)],
                   op |-> "set_format", patch |-> << >>]
    /\ lastResult = [ok |-> TRUE, err |-> "", cells |-> << >>, diff |-> << >>]
    /\ ops = 0

SpecReplace == InitReplace /\ [][NextGrid]_vars

(***************************************************************************)
(* The formula session: one formula text is drawn, entered into A1 through *)
(* apply_patch or set_cell on a new sheet, and followed by literal edits   *)
(* of the cells B1 and C1 that the formulas read.                          *)
(***************************************************************************)
FormulaParens == << "=", "(", "1", "+", "2", ")", "*", "3" >>
FormulaAssoc == << "=", "8", "-", "3", "-", "2" >>
FormulaIf == << "=", "I", "F", "(", "B", "1", ">", "0", ",", " ", "\"", "p", "o", "s", "\"", ",", " ", "\"", "n", "e", "g", "\"", ")" >>
FormulaSum == << "=", "S", "U", "M", "(", "B", "1", ":", "C", "1", ")" >>
FormulaSumPlusSum == << "=", "S", "U", "M", "(", "A", "1", ":", "A", "2", ")", "+", "S", "U", "M", "(", "B", "1", ":", "B", "2", ")" >>

\* a, a o b and a o b p c over number and cell-reference atoms.
PrecedenceTexts ==
    LET operators == {"+", "-", "*", "/", "^"}
        first == {<<"8">>, <<"B", "1">>}
        second == {<<"3">>, <<"B", "1">>}
    IN  {<<"=">> \o a : a \in first}
        \cup {<<"=">> \o a \o <<o>> \o b : a \in first, o \in operators, b \in second}
        \cup {<<"=">> \o a \o <<o>> \o b \o <<p>> \o <<"2">> :
                 a \in first, o \in operators, b \in second, p \in operators}

FormulaInputs ==
    PrecedenceTexts \cup {FormulaPrecedence, FormulaParens, FormulaAssoc, FormulaIf,
                          FormulaSum, FormulaSumPlusSum}

InitFormula ==
    /\ grid = GridNew(Rows, Cols)
    /\ formulas = EngineNew.formulas
    /\ dep_graph = EngineNew.dep_graph
    /\ \E text \in FormulaInputs : lastCall = Call("new", A1, text, << >>)
    /\ lastResult = [ok |-> TRUE, err |-> "", cells |-> << >>, diff |-> << >>]
    /\ ops = 0

NextFormula ==
    \/ lastCall.op = "new" /\ ApplyPatch(<< UpdateOf(A1, lastCall.text) >>)
    \/ lastCall.op = "new" /\ SetCell(A1, lastCall.text)
    \/ /\ lastCall.op # "new"
       /\ \E cell \in {B1, C1}, text \in {<<"-", "3">>, <<"4">>, <<"x">>} : SetCell(cell, text)

SpecFormula == InitFormula /\ [][NextFormula]_vars

\* The formula session over calls of the aggregate functions with arguments
\* whose evaluation fails: a division by zero, an unknown function, and a
\* division of B1 by C1, which fails while C1 holds no number.
AggregateArgs ==
    {<<"1", "/", "0">>, <<"1", "/", "0", ",", "5">>, <<"B", "1", "/", "C", "1", ",", "3">>,
     <<"F", "O", "O", "(", "1", ")", ",", "2">>, <<"B", "1", ",", "1", "/", "0">>,
     <<"5", ",", "B", "1", "/", "C", "1", ",", "7">>}

AggregateNames ==
    {FnNames.SUM, FnNames.AVERAGE, FnNames.AVG, FnNames.MIN, FnNames.MAX, FnNames.COUNT}

AggregateTexts == {<<"=">> \o name \o <<"(">> \o a \o <<")">> : name \in AggregateNames, a \in AggregateArgs}

InitAggregate ==
    /\ grid = GridNew(Rows, Cols)
    /\ formulas = EngineNew.formulas
    /\ dep_graph = EngineNew.dep_graph
    /\ \E text \in AggregateTexts : lastCall = Call("new", A1, text, << >>)
    /\ lastResult = [ok |-> TRUE, err |-> "", cells |-> << >>, diff |-> << >>]
    /\ ops = 0

SpecAggregate == InitAggregate /\ [][NextFormula]_vars

(***************************************************************************)
(* The reference session: one CellRef is drawn; to_a1 formats it and       *)
(* CellRef::parse reads the text back, col_to_letter formats its column    *)
(* and letter_to_col reads the letters back.  A call that returns a text   *)
(* records it in the field text of the result, a call that returns an      *)
(* Option records it in the field cells.                                   *)
(***************************************************************************)
RefInputs == {CellRef(r, c) : r \in {0, 8, 9, 98, 99}, c \in 0..MaxRefCol}

InitRef ==
    /\ grid = GridNew(Rows, Cols)
    /\ formulas = EngineNew.formulas
    /\ dep_graph = EngineNew.dep_graph
    /\ \E ref \in RefInputs : lastCall = Call("new", ref, << >>, << >>)
    /\ lastResult = [ok |-> TRUE, err |-> "", cells |-> << >>, diff |-> << >>]
    /\ ops = 0

ToA1 ==
    /\ lastCall.op = "new"
    /\ lastCall' = Call("to_a1", LastCell, << >>, << >>)
    /\ lastResult' = [text |-> to_a1(LastCell), ok |-> TRUE, err |-> "", cells |-> << >>,
                      diff |-> << >>]
    /\ ops' = ops + 1
    /\ UNCHANGED <<grid, formulas, dep_graph>>

\* CellRef::parse on the text to_a1 returned; row and col of the call keep
\* the reference the text was formatted from.
ParseA1 ==
    /\ lastCall.op = "to_a1"
    /\ lastCall' = Call("parse", LastCell, lastResult.text, << >>)
    /\ lastResult' = [ok |-> IsSome(CellRefParse(lastResult.text)), err |-> "",
                      cells |-> CellRefParse(lastResult.text), diff |-> << >>]
    /\ ops' = ops + 1
    /\ UNCHANGED <<grid, formulas, dep_graph>>

ColToLetter ==
    /\ lastCall.op = "new"
    /\ lastCall' = Call("col_to_letter", LastCell, << >>, << >>)
    /\ lastResult' = [text |-> col_to_letter(lastCall.col), ok |-> TRUE, err |-> "", cells |-> << >>,
                      diff |-> << >>]
    /\ ops' = ops + 1
    /\ UNCHANGED <<grid, formulas, dep_graph>>

LetterToCol ==
    /\ lastCall.op = "col_to_letter"
    /\ lastCall' = Call("letter_to_col", LastCell, lastResult.text, << >>)
    /\ lastResult' = [ok |-> IsSome(letter_to_col(lastResult.text)), err |-> "",
                      cells |-> letter_to_col(lastResult.text), diff |-> << >>]
    /\ ops' = ops + 1
    /\ UNCHANGED <<grid, formulas, dep_graph>>

NextRef == ToA1 \/ ParseA1 \/ ColToLetter \/ LetterToCol

SpecRef == InitRef /\ [][NextRef]_vars

(***************************************************************************)
(* grid.rs: the range operations.  end.min(self.rows - 1) subtracts in     *)
(* u32: on a grid without rows (or columns) the subtraction overflows,     *)
(* which panics in a build with overflow checks (checked) and wraps to     *)
(* u32::MAX in a build without, where the minimum is then end itself.      *)
(***************************************************************************)
ClampEnd(end, n, checked) ==
    IF n > 0 THEN Ok(IF end < n - 1 THEN end ELSE n - 1)
    ELSE IF checked THEN Err("Panic")
    ELSE Ok(end)

\* The CellData of columns col..=end_col, rows start_row..=end_row: a column
\* is walked in its insertion order, any order of its stored rows here.
RECURSIVE RangeColumns(_, _, _, _, _)
RangeColumns(g, col, end_col, start_row, end_row) ==
    IF col > end_col THEN {<< >>}
    ELSE LET rows == IF col \in DOMAIN g.columns
                     THEN {r \in DOMAIN g.columns[col] : r >= start_row /\ r <= end_row}
                     ELSE {}
         IN  {[i \in 1..Len(o) |-> CellData(CellRef(o[i], col), g.columns[col][o[i]])] \o rest :
                 o \in Orderings(rows),
                 rest \in RangeColumns(g, col + 1, end_col, start_row, end_row)}

get_range(g, start_row, start_col, end_row, end_col, checked) ==
    LET last_col == ClampEnd(end_col, g.cols, checked)
    IN  IF ~last_col.ok THEN {last_col}
        ELSE {[ok |-> TRUE, cells |-> cells] :
                 cells \in RangeColumns(g, start_col, last_col.value, start_row, end_row)}

\* The inner loop of apply_format_to_range: set_format on row, col..=end_col.
RECURSIVE FormatCols(_, _, _, _, _)
FormatCols(g, row, col, end_col, format) ==
    IF col > end_col THEN GridOk(g)
    ELSE Bind(set_format(g, CellRef(row, col), format), LAMBDA r :
            IF ~r.ok THEN [grid |-> g, ok |-> FALSE, err |-> r.err]
            ELSE FormatCols(r.grid, row, col + 1, end_col, format))

\* The outer loop: the range of the inner loop is computed once per row.
RECURSIVE FormatRows(_, _, _, _, _, _, _)
FormatRows(g, row, end_row, start_col, end_col, format, checked) ==
    IF row > end_row THEN GridOk(g)
    ELSE Bind(ClampEnd(end_col, g.cols, checked), LAMBDA last_col :
            IF ~last_col.ok THEN [grid |-> g, ok |-> FALSE, err |-> last_col.err]
            ELSE Bind(FormatCols(g, row, start_col, last_col.value, format), LAMBDA r :
                    IF ~r.ok THEN r
                    ELSE FormatRows(r.grid, row + 1, end_row, start_col, end_col,
                                    format, checked)))

apply_format_to_range(g, start_row, start_col, end_row, end_col, format, checked) ==
    Bind(ClampEnd(end_row, g.rows, checked), LAMBDA last_row :
        IF ~last_row.ok THEN [grid |-> g, ok |-> FALSE, err |-> last_row.err]
        ELSE FormatRows(g, start_row, last_row.value, start_col, end_col, format, checked))

(***************************************************************************)
(* The range session: a grid with or without rows and columns, in a build  *)
(* with or without overflow checks, on which get_range and                 *)
(* apply_format_to_range are called.  The call records its arguments and   *)
(* the build; get_range returns its cells in the field diff.               *)
(***************************************************************************)
RangeCall(op, start_row, start_col, end_row, end_col, checked) ==
    [row |-> start_row, col |-> start_col, text |-> << >>, op |-> op, patch |-> << >>,
     checked |-> checked, end_col |-> end_col, end_row |-> end_row]

InitRange ==
    /\ \E rows \in {0, Rows}, cols \in {0, Cols} : grid = GridNew(rows, cols)
    /\ formulas = EngineNew.formulas
    /\ dep_graph = EngineNew.dep_graph
    /\ \E checked \in BOOLEAN : lastCall = RangeCall("new", 0, 0, 0, 0, checked)
    /\ lastResult = [ok |-> TRUE, err |-> "", cells |-> << >>, diff |-> << >>]
    /\ ops = 0

GetRange(start_row, start_col, end_row, end_col) ==
    /\ ops < MaxOps
    /\ \E r \in get_range(grid, start_row, start_col, end_row, end_col, lastCall.checked) :
          lastResult' = [ok |-> r.ok, err |-> IF r.ok THEN "" ELSE r.err,
                         cells |-> << >>, diff |-> IF r.ok THEN r.cells ELSE << >>]
    /\ lastCall' = RangeCall("get_range", start_row, start_col, end_row, end_col,
                             lastCall.checked)
    /\ ops' = ops + 1
    /\ UNCHANGED <<grid, formulas, dep_graph>>

ApplyFormatToRange(start_row, start_col, end_row, end_col, format) ==
    /\ ops < MaxOps
    /\ Bind(apply_format_to_range(grid, start_row, start_col, end_row, end_col, format,
                                  lastCall.checked), LAMBDA r :
          /\ grid' = r.grid
          /\ lastResult' = GridReturned(r))
    /\ lastCall' = RangeCall("apply_format_to_range", start_row, start_col, end_row, end_col,
                             lastCall.checked)
    /\ ops' = ops + 1
    /\ UNCHANGED <<formulas, dep_graph>>

NextRange ==
    \/ \E start_row \in {0, 1}, end_row \in {0, Rows}, start_col \in {0, 1},
          end_col \in {0, 1, Cols} : GetRange(start_row, start_col, end_row, end_col)
    \/ \E start_row \in {0, 1}, end_row \in {0, Rows}, start_col \in {0, 1},
          end_col \in {0, 1, Cols}, format \in GridFormats :
          ApplyFormatToRange(start_row, start_col, end_row, end_col, format)

SpecRange == InitRange /\ [][NextRange]_vars

(***************************************************************************)
(* grid.rs: to_json and from_json.  The JSON text is modelled by the       *)
(* document it denotes: null, number, string, boolean and object values;   *)
(* an object is a function from its keys to its members.  The keys of a    *)
(* struct are its field names, the keys of a map are its u32 keys written  *)
(* in decimal.  An f64 that is not finite (NaN here) is a Number without   *)
(* the field value: serde_json writes it as null.                          *)
(***************************************************************************)
JNull == [json |-> "null"]
JNumber(n) == [value |-> n, json |-> "number"]
JString(s) == [value |-> s, json |-> "string"]
JBool(b) == [value |-> b, json |-> "bool"]
JObject(members) == [json |-> "object", members |-> members]

NumberNaN == [type |-> "Number", nan |-> TRUE]

\* #[serde(tag = "type", content = "value")] enum CellValue.
SerCellValue(v) ==
    CASE v.type = "Empty" -> JObject([type |-> JString(v.type)])
      [] v.type = "Number" ->
            JObject([value |-> IF "value" \in DOMAIN v THEN JNumber(v.value) ELSE JNull,
                     type |-> JString(v.type)])
      [] v.type = "Boolean" -> JObject([value |-> JBool(v.value), type |-> JString(v.type)])
      [] OTHER -> JObject([value |-> JString(v.value), type |-> JString(v.type)])

\* struct CellFormat: every attribute is skipped when it is None.
SerFormat(format) ==
    JObject([k \in {f \in DOMAIN format : IsSome(format[f])} |->
        IF k \in {"font_bold", "font_italic", "font_underline"} THEN JBool(Unwrap(format[k]))
        ELSE IF k = "font_size" THEN JNumber(Unwrap(format[k]))
        ELSE JString(Unwrap(format[k]))])

\* struct Cell: formula and format are skipped when they are None.
SerCell(cell) ==
    JObject([k \in {"value"} \cup (IF IsSome(cell.formula) THEN {"formula"} ELSE {})
                            \cup (IF IsSome(cell.format) THEN {"format"} ELSE {}) |->
        IF k = "value" THEN SerCellValue(cell.value)
        ELSE IF k = "formula" THEN JString(Unwrap(cell.formula))
        ELSE SerFormat(Unwrap(cell.format))])

\* serde_json::to_string(self): the widths and heights are those of Grid::new.
to_json(g) ==
    Ok(JObject([rows |-> JNumber(g.rows), cols |-> JNumber(g.cols),
        columns |-> JObject([ck \in {NatToString(c) : c \in DOMAIN g.columns} |->
            JObject([rk \in {NatToString(r) : r \in DOMAIN g.columns[Unwrap(parse_u32(ck))]} |->
                SerCell(g.columns[Unwrap(parse_u32(ck))][Unwrap(parse_u32(rk))])])]),
        col_widths |-> JObject(<< >>), row_heights |-> JObject(<< >>),
        default_col_width |-> JNumber(100), default_row_height |-> JNumber(24)]))

Serialization == Err("Serialization")

DeCellValue(j) ==
    IF j.json # "object" \/ "type" \notin DOMAIN j.members THEN Serialization
    ELSE LET tag == j.members.type.value
             kind == IF "value" \in DOMAIN j.members THEN j.members.value.json ELSE "missing"
         IN  CASE tag = "Empty" -> Ok(Empty)
               [] tag = "Number" ->
                     IF kind = "number" THEN Ok(Number(j.members.value.value)) ELSE Serialization
               [] tag = "Boolean" ->
                     IF kind = "bool" THEN Ok(Boolean(j.members.value.value)) ELSE Serialization
               [] tag = "Text" ->
                     IF kind = "string" THEN Ok(Text(j.members.value.value)) ELSE Serialization
               [] tag = "Error" ->
                     IF kind = "string" THEN Ok(Error(j.members.value.value)) ELSE Serialization
               [] OTHER -> Serialization

\* A missing attribute of CellFormat is None.
DeFormat(j) ==
    [k \in DOMAIN CellFormatNone |->
        IF k \in DOMAIN j.members THEN Some(j.members[k].value) ELSE None]

\* A Cell needs its value; a missing formula or format is None.
DeCell(j) ==
    IF j.json # "object" \/ "value" \notin DOMAIN j.members THEN Serialization
    ELSE Bind(DeCellValue(j.members.value), LAMBDA v :
            IF ~v.ok THEN v
            ELSE Ok([value |-> v.value,
                     formula |-> IF "formula" \in DOMAIN j.members
                                 THEN Some(j.members.formula.value) ELSE None,
                     format |-> IF "format" \in DOMAIN j.members
                                THEN Some(DeFormat(j.members.format)) ELSE None]))

\* serde_json::from_str: rows and cols are required, columns defaults to
\* the empty map, every key must read as a u32 and every cell must read.
from_json(j) ==
    IF j.json # "object" \/ ~({"rows", "cols"} \subseteq DOMAIN j.members) THEN Serialization
    ELSE LET cols == IF "columns" \in DOMAIN j.members THEN j.members.columns.members ELSE << >>
             good == \A ck \in DOMAIN cols :
                        /\ IsSome(parse_u32(ck))
                        /\ \A rk \in DOMAIN cols[ck].members :
                              IsSome(parse_u32(rk)) /\ DeCell(cols[ck].members[rk]).ok
         IN  IF ~good THEN Serialization
             ELSE GridOk([rows |-> j.members.rows.value, cols |-> j.members.cols.value,
                    columns |-> [c \in {Unwrap(parse_u32(ck)) : ck \in DOMAIN cols} |->
                        [r \in {Unwrap(parse_u32(rk)) : rk \in DOMAIN cols[NatToString(c)].members} |->
                            DeCell(cols[NatToString(c)].members[NatToString(r)]).value]]])

(***************************************************************************)
(* The JSON session: a grid is built by set_value calls, to_json writes it *)
(* and from_json reads the document back into a second grid, which the     *)
(* result keeps in its field grid beside the grid it was written from.     *)
(***************************************************************************)
JsonValues == << Empty, Number(5), Text(<<"x">>), Boolean(TRUE), NumberNaN >>

ToJson ==
    /\ lastCall.op # "to_json"
    /\ lastCall' = Call("to_json", A1, << >>, << >>)
    /\ lastResult' = [ok |-> to_json(grid).ok, err |-> "", cells |-> << >>, diff |-> << >>,
                      json |-> to_json(grid).value]
    /\ UNCHANGED <<grid, formulas, dep_graph, ops>>

FromJson ==
    /\ lastCall.op = "to_json" /\ lastResult.ok
    /\ lastCall' = [Call("from_json", A1, << >>, << >>) EXCEPT !.text = lastResult.json]
    /\ Bind(from_json(lastResult.json), LAMBDA r :
          lastResult' = [grid |-> IF r.ok THEN Some(r.grid) ELSE None, ok |-> r.ok,
                         err |-> IF r.ok THEN "" ELSE r.err, cells |-> << >>,
                         diff |-> << >>])
    /\ UNCHANGED <<grid, formulas, dep_graph, ops>>

NextJson ==
    \/ \E cell \in TargetCells, i \in DOMAIN JsonValues : SetValue(cell, JsonValues[i])
    \/ ToJson
    \/ FromJson

SpecJson == Init /\ [][NextJson]_vars

(***************************************************************************)
(* The parse session: one formula text over single references and ranges   *)
(* is drawn and FormulaEngine::parse reads it; the result keeps the        *)
(* Formula that parse returned.                                            *)
(***************************************************************************)
CornerRefs == {CellRef(r, c) : r \in 0..1, c \in 0..2}

RangeTexts == {to_a1(s) \o <<":">> \o to_a1(e) : s \in CornerRefs, e \in CornerRefs}

DepsInputs ==
    {<<"=">> \o t : t \in RangeTexts}
    \cup {<<"=", "S", "U", "M", "(">> \o t \o <<")">> : t \in RangeTexts}
    \cup {<<"=">> \o to_a1(a) \o <<"+", "S", "U", "M", "(">> \o t \o <<")">> :
             a \in {A1, CellRef(1, 2)}, t \in RangeTexts}

InitDeps ==
    /\ grid = GridNew(Rows, Cols)
    /\ formulas = EngineNew.formulas
    /\ dep_graph = EngineNew.dep_graph
    /\ \E text \in DepsInputs : lastCall = Call("new", A1, text, << >>)
    /\ lastResult = [ok |-> TRUE, err |-> "", cells |-> << >>, diff |-> << >>]
    /\ ops = 0

ParseFormula ==
    /\ lastCall.op = "new"
    /\ lastCall' = Call("parse", A1, lastCall.text, << >>)
    /\ Bind(parse(lastCall.text), LAMBDA p :
          lastResult' = [formula |-> IF p.ok THEN Some(p.formula) ELSE None,
                         ok |-> p.ok, err |-> IF p.ok THEN "" ELSE p.err,
                         cells |-> << >>, diff |-> << >>])
    /\ UNCHANGED <<grid, formulas, dep_graph, ops>>

NextDeps == ParseFormula

SpecDeps == InitDeps /\ [][NextDeps]_vars

(***************************************************************************)
(* The session of failing calls: formulas that read A1, one of them        *)
(* dividing by zero, entered through apply_patch, patches whose second     *)
(* update is rejected, and recalculate.                                    *)
(***************************************************************************)
FormulaA1DivZero == << "=", "A", "1", "/", "0" >>

AbortPatches ==
    {<< UpdateOf(c, t) >> : c \in TargetCells,
                            t \in {FormulaPrecedence, FormulaA1DivZero, FormulaA1Times2,
                                    FormulaB1, Lit5}}
    \cup {<< UpdateOf(B1, FormulaA1DivZero), UpdateOf(C1, FormulaB1) >>,
          << UpdateOf(B1, FormulaA1DivZero), UpdateOf(C1, FormulaA1Times2) >>,
          << UpdateOf(A1, Lit5), UpdateOf(B1, ErrorFormulas.broken) >>,
          << UpdateOf(A1, FormulaPrecedence), UpdateOf(OutCell, Lit5) >>,
          << UpdateOf(B1, FormulaA1Times2), UpdateOf(OutCell, FormulaB1) >>}

NextAbort ==
    \/ \E patch \in AbortPatches : ApplyPatch(patch)
    \/ \E changed \in TargetCells : Recalculate(changed)

SpecAbort == Init /\ [][NextAbort]_vars

(***************************************************************************)
(* The import session: lib.rs SheetEngine::import_json between edits       *)
(* through apply_patch and calls of recalculate.  The documents imported   *)
(* are the exports of four grids and a document that is no grid.           *)
(***************************************************************************)
ImportDocs ==
    << to_json(GridNew(Rows, Cols)).value,
       to_json(set_value(set_value(GridNew(Rows, Cols), A1, Number(5)).grid,
                         B1, Number(1)).grid).value,
       to_json(set_formula(set_value(GridNew(Rows, Cols), A1, Number(7)).grid,
                           C1, parse(FormulaA1PlusB1).formula).grid).value,
       to_json(set_value(GridNew(Rows + 1, Cols + 1), B1, Number(1)).grid).value,
       JNull >>

\* Mutant of ImportJson: the import also replaces the engine by a new one.
ImportJsonResetting(doc) ==
    /\ ops < MaxOps
    /\ Bind(from_json(doc), LAMBDA r :
          /\ grid' = (IF r.ok THEN r.grid ELSE grid)
          /\ lastResult' = GridReturned(r))
    /\ lastCall' = [Call("import_json", A1, << >>, << >>) EXCEPT !.text = doc]
    /\ ops' = ops + 1
    /\ formulas' = EngineNew.formulas
    /\ dep_graph' = EngineNew.dep_graph

\* self.grid = Grid::from_json(json)?; the engine is not named.
ImportJson(doc) ==
    /\ ops < MaxOps
    /\ Bind(from_json(doc), LAMBDA r :
          /\ grid' = (IF r.ok THEN r.grid ELSE grid)
          /\ lastResult' = GridReturned(r))
    /\ lastCall' = [Call("import_json", A1, << >>, << >>) EXCEPT !.text = doc]
    /\ ops' = ops + 1
    /\ UNCHANGED <<formulas, dep_graph>>

NextImport ==
    \/ \E patch \in {<< UpdateOf(B1, FormulaA1Times2) >>, << UpdateOf(A1, Lit7) >>,
                      << UpdateOf(C1, FormulaB1) >>} : ApplyPatch(patch)
    \/ \E i \in DOMAIN ImportDocs : ImportJson(ImportDocs[i])
    \/ \E changed \in TargetCells : Recalculate(changed)

SpecImport == Init /\ [][NextImport]_vars

(***************************************************************************)
(* Vocabulary of the properties.                                           *)
(***************************************************************************)
StoredCells(g) == UNION {{CellRef(r, c) : r \in DOMAIN g.columns[c]} : c \in DOMAIN g.columns}

ValueAt(g, c) == IF IsSome(get_cell(g, c)) THEN Unwrap(get_cell(g, c)).value ELSE Empty

\* The cells of the grid that bear a formula, and the text each bears.
FormulaCells(g) == {c \in StoredCells(g) : IsSome(Unwrap(get_cell(g, c)).formula)}
FormulaTextAt(g, c) == Unwrap(Unwrap(get_cell(g, c)).formula)

\* The cells the formula of grid cell v references, read off its text.
ReadsOf(g, v) == Range(parse(FormulaTextAt(g, v)).formula.dependencies)

\* The formula cells of the grid that read c directly or through other
\* formula cells of the grid.
RECURSIVE ReadersClosure(_, _)
ReadersClosure(g, found) ==
    LET more == {v \in FormulaCells(g) : ReadsOf(g, v) \cap found # {}} \ found
    IN  IF more = {} THEN found ELSE ReadersClosure(g, found \cup more)

TransitiveReaders(g, c) ==
    {v \in FormulaCells(g) : \E u \in ReadsOf(g, v) : u \in ReadersClosure(g, {c})}

\* Every formula cell of the grid is registered in the engine under its text.
AllRegistered ==
    \A v \in FormulaCells(grid) :
        v \in DOMAIN formulas /\ formulas[v].raw = FormulaTextAt(grid, v)

\* The value of grid cell v is what one evaluation of its formula gives on g.
EvaluatesTo(g, v) ==
    LET e == evaluate(parse(FormulaTextAt(g, v)).formula.ast, g)
    IN  e.ok /\ CellValueEq(e.value, ValueAt(g, v))

\* The registered formulas read each other in a circle.
RECURSIVE RegisteredReaders(_)
RegisteredReaders(found) ==
    LET more == {v \in DOMAIN formulas :
                    Range(formulas[v].dependencies) \cap found # {}} \ found
    IN  IF more = {} THEN found ELSE RegisteredReaders(found \cup more)

FormulasCyclic ==
    \E v \in DOMAIN formulas :
        \E u \in Range(formulas[v].dependencies) : u \in RegisteredReaders({v})

\* The cells of the formula map fs that are on a cycle of its reads.
CycleCells(fs) ==
    LET RECURSIVE Readers(_)
        Readers(found) ==
            LET more == {v \in DOMAIN fs :
                            Range(fs[v].dependencies) \cap found # {}} \ found
            IN  IF more = {} THEN found ELSE Readers(found \cup more)
    IN  {v \in DOMAIN fs : \E u \in Range(fs[v].dependencies) : u \in Readers({v})}

\* The nodes of the graph dg that lie on a cycle of its edges.
GraphCycleNodes(dg) ==
    LET RECURSIVE Reached(_)
        Reached(found) ==
            LET more == (UNION {neighbors(dg, n) : n \in found}) \ found
            IN  IF more = {} THEN found ELSE Reached(found \cup more)
    IN  {n \in dg.nodes : n \in Reached(neighbors(dg, n))}

\* The tree of a parenthesis-free expression over number and cell-reference
\* atoms by the rule of precedence: the split is at the rightmost operator of
\* the loosest level present (+ -, then * /, then ^).
RECURSIVE SplitTree(_)
SplitTree(expr) ==
    LET at(level) == {i \in DOMAIN expr : expr[i] \in level}
        level == IF at({"+", "-"}) # {} THEN {"+", "-"}
                 ELSE IF at({"*", "/"}) # {} THEN {"*", "/"}
                 ELSE {"^"}
        k == CHOOSE i \in at(level) : \A j \in at(level) : j <= i
    IN  IF at(level) = {}
        THEN IF AllDigits(expr) THEN NodeNumber(DecimalValue(expr))
             ELSE NodeCellRef(Unwrap(CellRefParse(expr)))
        ELSE NodeBinaryOp(BinaryOpOf(expr[k]), SplitTree(SubSeq(expr, 1, k - 1)),
                          SplitTree(SubSeq(expr, k + 1, Len(expr))))

\* The cells a formula tree refers to: the cell of every CellRef node and,
\* for every Range node, the rectangle spanned by its two corners.
RECURSIVE ReferredCells(_)
ReferredCells(node) ==
    CASE node.type = "CellRef" -> {node.cell}
      [] node.type = "Range" ->
            LET lo(a, b) == IF a <= b THEN a ELSE b
                hi(a, b) == IF a <= b THEN b ELSE a
            IN  {CellRef(r, c) : r \in lo(node.start.row, node.end.row)..hi(node.start.row, node.end.row),
                                 c \in lo(node.start.col, node.end.col)..hi(node.start.col, node.end.col)}
      [] node.type = "BinaryOp" -> ReferredCells(node.left) \cup ReferredCells(node.right)
      [] node.type = "UnaryOp" -> ReferredCells(node.operand)
      [] node.type = "Function" -> UNION {ReferredCells(node.args[i]) : i \in DOMAIN node.args}
      [] OTHER -> {}

\* The call node without its arguments that are no range and whose
\* evaluation fails on g.
WithoutFailing(node, g) ==
    NodeFunction(node.name, SelectSeq(node.args, LAMBDA a : a.type = "Range" \/ evaluate(a, g).ok))


\* The cell whose recalculation ended the last operation.
LastChanged ==
    IF lastCall.op = "apply_patch"
    THEN CellRef(lastCall.patch[Len(lastCall.patch)].row, lastCall.patch[Len(lastCall.patch)].col)
    ELSE LastCell

IsEdit(call) == call.op \in {"set_cell", "apply_patch"}

\* The text of an edit of one cell: of set_cell, or of a patch of one update.
IsSingleEdit(call) ==
    call.op = "set_cell" \/ (call.op = "apply_patch" /\ Len(call.patch) = 1)

EditText(call) ==
    IF call.op = "set_cell" THEN call.text
    ELSE IF IsSome(call.patch[1].formula) THEN Unwrap(call.patch[1].formula)
    ELSE IF IsSome(call.patch[1].value) THEN Unwrap(call.patch[1].value)
    ELSE << >>

IsFormulaEdit(call) ==
    \/ call.op = "set_cell" /\ starts_with(call.text, "=")
    \/ call.op = "apply_patch" /\ Len(call.patch) = 1 /\ IsSome(call.patch[1].formula)

IsLiteralEdit(call) ==
    \/ call.op = "set_cell" /\ ~starts_with(call.text, "=")
    \/ /\ call.op = "apply_patch" /\ Len(call.patch) = 1
       /\ ~IsSome(call.patch[1].formula) /\ IsSome(call.patch[1].value)

DiffCells(result) == [i \in 1..Len(result.diff) |-> CellRef(result.diff[i].row, result.diff[i].col)]

\* The errors that the evaluation of a formula returns.
EvaluationErrors == {"DivisionByZero", "TypeError", "UnknownFunction", "ArgumentCount"}

\* A pass of recalculate for the cell changed took the grid from g0 to g1
\* and was aborted with err: in one of the orders of the pass there is a
\* cell whose formula fails on g1 with err, the formula cells before it hold
\* on g1 the values of their formulas, and the cells from it on, and the
\* cells outside the pass, are as they were on g0.
PassAborted(g0, g1, eng, changed, err) ==
    \E sorted \in toposort(eng.dep_graph) :
        LET sorted_cells == SortedCells(sorted, AffectedSet(eng, changed))
        IN  \E k \in DOMAIN sorted_cells :
               /\ sorted_cells[k] \in DOMAIN eng.formulas
               /\ ~evaluate(eng.formulas[sorted_cells[k]].ast, g1).ok
               /\ evaluate(eng.formulas[sorted_cells[k]].ast, g1).err = err
               /\ \A i \in 1..(k - 1) :
                     (sorted_cells[i] \in DOMAIN eng.formulas /\ IsSome(get_cell(g0, sorted_cells[i])))
                        => /\ evaluate(eng.formulas[sorted_cells[i]].ast, g1).ok
                           /\ CellValueEq(ValueAt(g1, sorted_cells[i]),
                                          evaluate(eng.formulas[sorted_cells[i]].ast, g1).value)
               /\ \A i \in k..Len(sorted_cells) :
                     get_cell(g1, sorted_cells[i]) = get_cell(g0, sorted_cells[i])
               /\ \A c \in (StoredCells(g0) \cup StoredCells(g1)) \ Range(sorted_cells) :
                     get_cell(g1, c) = get_cell(g0, c)

\* The first loop of the patch of the last call stopped at update k: the grid
\* is the one that the updates before k leave, without any recalculation,
\* and the formulas they registered are registered.
PatchFailedAt(k) ==
    Bind(lastCall'.patch, LAMBDA patch :
    Bind(ApplyUpdates(grid, Engine, SubSeq(patch, 1, k - 1), 1, << >>), LAMBDA done :
        /\ done.ok
        /\ grid' = done.grid
        /\ \A c \in DOMAIN done.eng.formulas :
              c \in DOMAIN formulas' /\ formulas'[c] = done.eng.formulas[c]
        /\ Edges(done.eng.dep_graph) \subseteq Edges(dep_graph')
        /\ IF lastResult'.err = "Parse"
           THEN IsSome(patch[k].formula) /\ ~parse(Unwrap(patch[k].formula)).ok
           ELSE ~check_bounds(grid, CellRef(patch[k].row, patch[k].col)).ok))

\* The patch of the last call failed in its recalculation: every update is
\* stored and registered, and every stored cell holds either the value the
\* updates left (the stale value or the placeholder of its formula) or the
\* value of its registered formula.
PatchFailedInRecalculation ==
    Bind(ApplyUpdates(grid, Engine, lastCall'.patch, 1, << >>), LAMBDA done :
        /\ done.ok
        /\ formulas' = done.eng.formulas /\ dep_graph' = done.eng.dep_graph
        /\ StoredCells(grid') = StoredCells(done.grid)
        /\ \A c \in StoredCells(done.grid) :
              /\ Unwrap(get_cell(grid', c)).formula = Unwrap(get_cell(done.grid, c)).formula
              /\ Unwrap(get_cell(grid', c)).format = Unwrap(get_cell(done.grid, c)).format
              /\ \/ CellValueEq(ValueAt(grid', c), ValueAt(done.grid, c))
                 \/ /\ c \in DOMAIN formulas'
                    /\ evaluate(formulas'[c].ast, grid').ok
                    /\ CellValueEq(ValueAt(grid', c), evaluate(formulas'[c].ast, grid').value))

(***************************************************************************)
(* C1.  After a recalculation of cell c returned Ok, with every formula    *)
(* cell of the grid registered under its text, every formula cell that     *)
(* transitively reads c holds the value one evaluation of its formula      *)
(* gives on the final grid.  The recalculation is a direct call, the one   *)
(* that ends set_cell, or the last one of apply_patch.                     *)
(***************************************************************************)
C1_RecalcClosure ==
    (lastCall.op \in {"recalculate", "set_cell", "apply_patch"} /\ lastResult.ok /\ AllRegistered)
        => \A v \in TransitiveReaders(grid, LastChanged) : EvaluatesTo(grid, v)

\* A recalculation of c succeeded with a registered formula cell that reads c
\* through another registered formula cell, and both hold numbers.
C1_Witness ==
    /\ lastCall.op = "recalculate" /\ lastResult.ok /\ AllRegistered
    /\ \E u, v \in TransitiveReaders(grid, LastChanged) :
          /\ u # v /\ u \in ReadsOf(grid, v)
          /\ ValueAt(grid, u).type = "Number" /\ ValueAt(grid, v).type = "Number"

(***************************************************************************)
(* C2.  The order in which one recalculation evaluates (the list it        *)
(* returns) puts every cell after the cells its registered formula reads:  *)
(* no cell of the list is read by a cell that comes before it or is it.    *)
(***************************************************************************)
C2_TopologicalOrder ==
    (lastCall.op \in {"recalculate", "set_cell"} /\ lastResult.ok)
        => \A i, j \in 1..Len(lastResult.cells) :
              (/\ lastResult.cells[i] \in DOMAIN formulas
               /\ lastResult.cells[j] \in Range(formulas[lastResult.cells[i]].dependencies))
                  => j < i

\* A recalculation evaluated a chain of three cells, two of them formulas.
C2_Witness ==
    /\ lastCall.op = "recalculate" /\ lastResult.ok
    /\ Len(lastResult.cells) = 3
    /\ \E i, j \in 1..3 :
          /\ lastResult.cells[i] \in DOMAIN formulas
          /\ lastResult.cells[j] \in DOMAIN formulas
          /\ lastResult.cells[j] \in Range(formulas[lastResult.cells[i]].dependencies)

(***************************************************************************)
(* C3.  An apply_patch whose updates were all parsed and stored returns    *)
(* CircularReference exactly when the registered formulas read each other  *)
(* in a circle after it: the edit that closes the cycle fails with that    *)
(* error, an edit that closes none does not, and registration itself never *)
(* fails.                                                                  *)
(***************************************************************************)
C3_CycleReportedAtRecompute ==
    (lastCall.op = "apply_patch" /\ lastResult.err \notin {"Parse", "Panic", "OutOfBounds"})
        => (lastResult.err = "CircularReference" <=> FormulasCyclic)

\* A formula edit of one cell closed a cycle of two cells and failed with
\* CircularReference.
C3_Witness ==
    /\ lastCall.op = "apply_patch" /\ IsFormulaEdit(lastCall)
    /\ lastResult.err = "CircularReference"
    /\ LastCell \in DOMAIN formulas
    /\ \E u \in Range(formulas[LastCell].dependencies) :
          /\ u # LastCell /\ u \in DOMAIN formulas
          /\ LastCell \in Range(formulas[u].dependencies)

(***************************************************************************)
(* C4.  An edit that fails with CircularReference leaves the value of      *)
(* every cell, the edited one included, as it was before the edit.         *)
(***************************************************************************)
C4_CycleKeepsValues ==
    [][(IsEdit(lastCall') /\ lastResult'.err = "CircularReference")
          => \A c \in TargetCells : CellValueEq(ValueAt(grid', c), ValueAt(grid, c))]_vars

(***************************************************************************)
(* C5.  A call of recalculate that returns CircularReference leaves the    *)
(* grid as it was at the start of the call.                                *)
(***************************************************************************)
C5_CycleWritesNothing ==
    [][(lastCall'.op = "recalculate" /\ lastResult'.err = "CircularReference")
          => grid' = grid]_vars

\* recalculate returned CircularReference for a cell whose registered
\* formula reads a cell that holds a number.
C5_Witness ==
    /\ lastCall.op = "recalculate" /\ lastResult.err = "CircularReference"
    /\ LastCell \in DOMAIN formulas
    /\ \E u \in Range(formulas[LastCell].dependencies) : ValueAt(grid, u).type = "Number"

(***************************************************************************)
(* C6.  For every grid cell that bears a formula, the cells with an edge   *)
(* into it in the dependency graph are the cells its formula references.   *)
(***************************************************************************)
C6_EdgesMatchFormula ==
    \A v \in FormulaCells(grid) : Incoming(dep_graph, v) = ReadsOf(grid, v)

(***************************************************************************)
(* C7.  When a cell that bears a registered formula is edited with a       *)
(* literal, the engine afterwards holds no formula for it, no edge enters  *)
(* it, and it holds the literal value.                                     *)
(***************************************************************************)
C7_LiteralDropsFormula ==
    [][(/\ IsLiteralEdit(lastCall') /\ lastResult'.ok
        /\ CellRef(lastCall'.row, lastCall'.col) \in FormulaCells(grid) \cap DOMAIN formulas)
          => LET c == CellRef(lastCall'.row, lastCall'.col)
             IN  /\ c \notin DOMAIN formulas'
                 /\ Incoming(dep_graph', c) = {}
                 /\ CellValueEq(ValueAt(grid', c), CellValueParse(EditText(lastCall')))]_vars

(***************************************************************************)
(* C8.  After set_cell with a text that begins with '=' succeeded, the     *)
(* formula is registered, the cell holds the value its evaluation gives,   *)
(* and the returned diff contains the cell.                                *)
(***************************************************************************)
C8_SetCellFormula ==
    (lastCall.op = "set_cell" /\ starts_with(lastCall.text, "=") /\ lastResult.ok)
        => /\ LastCell \in DOMAIN formulas
           /\ formulas[LastCell].raw = lastCall.text
           /\ LastCell \in FormulaCells(grid)
           /\ EvaluatesTo(grid, LastCell)
           /\ LastCell \in Range(DiffCells(lastResult))

(***************************************************************************)
(* C9.  When a literal edit of cell a succeeds and a formula cell b of the *)
(* grid reads a, the returned diff contains a and b, a before b, and b     *)
(* holds the value its formula gives on the new grid.                      *)
(***************************************************************************)
C9_DependentInDiff ==
    [][(IsLiteralEdit(lastCall') /\ lastResult'.ok)
          => LET a == CellRef(lastCall'.row, lastCall'.col)
                 cells == DiffCells(lastResult')
             IN  \A b \in FormulaCells(grid) \ {a} :
                    a \in ReadsOf(grid, b)
                       => /\ a \in Range(cells) /\ b \in Range(cells)
                          /\ Position(cells, a) < Position(cells, b)
                          /\ EvaluatesTo(grid', b)]_vars

(***************************************************************************)
(* C10.  After the edit of a cell with a formula whose evaluation divides  *)
(* by zero, the cell holds Error("DIV/0"), displayed as #DIV/0.            *)
(***************************************************************************)
C10_DivZeroStored ==
    (IsFormulaEdit(lastCall) /\ EditText(lastCall) = FormulaDivZero)
        => /\ CellValueEq(ValueAt(grid, LastCell), Error(StrDivZero))
           /\ display(ValueAt(grid, LastCell)) = << "#" >> \o StrDivZero

(***************************************************************************)
(* C11.  When the edit of one cell (set_cell, or a patch of one update)    *)
(* fails with a user input error, the target cell is as before the edit    *)
(* and no cell was recalculated: the grid is the grid before the edit.     *)
(***************************************************************************)
C11_FailedEditKeepsCell ==
    [][(IsSingleEdit(lastCall') /\ lastResult'.err \in {"Parse", "OutOfBounds", "UnknownFunction", "ArgumentCount"})
          => /\ get_cell(grid', CellRef(lastCall'.row, lastCall'.col))
                    = get_cell(grid, CellRef(lastCall'.row, lastCall'.col))
             /\ grid'.columns = grid.columns]_vars

C13_RecalcFrame ==
    [][lastCall'.op = "recalculate"
          => LET changed == CellRef(lastCall'.row, lastCall'.col)
                 affected == RegisteredReaders({changed})
             IN  /\ StoredCells(grid') = StoredCells(grid)
                 /\ \A c \in StoredCells(grid) :
                       /\ c \notin affected => get_cell(grid', c) = get_cell(grid, c)
                       /\ Unwrap(get_cell(grid', c)).formula = Unwrap(get_cell(grid, c)).formula
                       /\ Unwrap(get_cell(grid', c)).format = Unwrap(get_cell(grid, c)).format]_vars

\* A recalculation returned a stored formula cell it evaluated while a cell
\* outside the affected set is stored in the grid.
C13_Witness ==
    /\ lastCall.op = "recalculate" /\ lastResult.ok
    /\ \E v \in Range(lastResult.cells) : v \in DOMAIN formulas /\ v \in StoredCells(grid)
    /\ StoredCells(grid) \ RegisteredReaders({LastCell}) # {}

(***************************************************************************)
(* C14.  The list a successful recalculate(grid, changed) returns contains *)
(* changed, also when changed has no formula and no formula reads it.      *)
(***************************************************************************)
C14_ChangedInList ==
    (lastCall.op = "recalculate" /\ lastResult.ok) => LastCell \in Range(lastResult.cells)

(***************************************************************************)
(* C15.  The grid after apply_patch is the grid that the updates applied   *)
(* in list order, followed by one topological evaluation pass over the     *)
(* union of the affected sets of the touched cells, give.                  *)
(***************************************************************************)
C15_PatchIsReplayThenOnePass ==
    [][lastCall'.op = "apply_patch"
          => Bind(ApplyUpdates(grid, Engine, lastCall'.patch, 1, << >>), LAMBDA replayed :
                IF ~replayed.ok THEN grid' = replayed.grid
                ELSE Bind(UNION {AffectedSet(replayed.eng, c) : c \in Range(replayed.affected)},
                          LAMBDA union :
                     Bind(toposort(replayed.eng.dep_graph), LAMBDA orders :
                        IF orders = {} THEN grid' = replayed.grid
                        ELSE \E sorted \in orders :
                                grid' = RecalcLoop(replayed.grid, replayed.eng.formulas,
                                                   SortedCells(sorted, union), 1).grid)))]_vars

(***************************************************************************)
(* C16.  The list a successful apply_patch returns holds no cell twice,    *)
(* and it begins with the touched cells in the order of their first update *)
(* in the patch.                                                           *)
(***************************************************************************)
C16_PatchListOnce ==
    (lastCall.op = "apply_patch" /\ lastResult.ok)
        => LET cells == lastResult.cells
               updated == [k \in 1..Len(lastCall.patch) |->
                              CellRef(lastCall.patch[k].row, lastCall.patch[k].col)]
               touched == FoldAffected(<< >>, updated)
           IN  /\ \A i, j \in 1..Len(cells) : i # j => cells[i] # cells[j]
               /\ Len(cells) >= Len(touched)
               /\ SubSeq(cells, 1, Len(touched)) = touched

(***************************************************************************)
(* C17.  An update with neither value nor formula is a no-op: apply_patch  *)
(* leaves the grid, the stored formulas and the dependency graph, and      *)
(* returns success or the error and the cells, as it does on the patch     *)
(* without such updates.                                                   *)
(***************************************************************************)
C17_NoOpUpdate ==
    [][lastCall'.op = "apply_patch"
          => \E r \in apply_patch(grid, Engine,
                                  SelectSeq(lastCall'.patch,
                                            LAMBDA u : IsSome(u.value) \/ IsSome(u.formula))) :
                /\ r.grid = grid'
                /\ r.eng.formulas = formulas'
                /\ r.eng.dep_graph = dep_graph'
                /\ r.ok = lastResult'.ok
                /\ IF r.ok THEN r.cells = lastResult'.cells ELSE r.err = lastResult'.err]_vars

C19_NoEmptyStoredCell ==
    \A c \in StoredCells(grid) :
        LET cell == Unwrap(get_cell(grid, c))
        IN  ~(cell.value.type = "Empty" /\ cell.formula = None /\ cell.format = None)

(***************************************************************************)
(* C20.  set_value(r, Empty) leaves r absent from the grid, and cell_count *)
(* is one less than before when r was present and the same as before       *)
(* otherwise; set_value with a value other than Empty on an absent cell    *)
(* within bounds makes cell_count one more than before, and get_cell then  *)
(* returns a cell with that value.                                         *)
(***************************************************************************)
C20_SetValueCount ==
    [][lastCall'.op = "set_value" =>
         LET r == CellRef(lastCall'.row, lastCall'.col)
             present == IsSome(get_cell(grid, r))
         IN  /\ lastCall'.value.type = "Empty"
                   => /\ get_cell(grid', r) = None
                      /\ cell_count(grid') = cell_count(grid) - (IF present THEN 1 ELSE 0)
             /\ (lastCall'.value.type # "Empty" /\ ~present /\ check_bounds(grid, r).ok)
                   => /\ cell_count(grid') = cell_count(grid) + 1
                      /\ IsSome(get_cell(grid', r))
                      /\ CellValueEq(Unwrap(get_cell(grid', r)).value, lastCall'.value)]_vars

\* The first call on the new grid is set_value(B1, Number 7): B1 was absent
\* and within bounds, and is now the one stored cell, with that value.
C20_Witness ==
    /\ ops = 1 /\ lastCall.op = "set_value" /\ lastResult.ok
    /\ LastCell = B1 /\ CellValueEq(lastCall.value, Number(7))
    /\ cell_count(grid) = 1
    /\ CellValueEq(ValueAt(grid, B1), Number(7))

(***************************************************************************)
(* C21.  set_value(r, Empty) removes a stored cell only when the cell has  *)
(* no formula and no format; a cell that carries a format stays in the     *)
(* grid, with that format and the value Empty.                             *)
(***************************************************************************)
C21_EmptyKeepsFormat ==
    [][(/\ lastCall'.op = "set_value" /\ lastCall'.value.type = "Empty"
        /\ IsSome(get_cell(grid, LastCell')))
          => LET before == Unwrap(get_cell(grid, LastCell'))
                 after == get_cell(grid', LastCell')
             IN  /\ after = None => (before.formula = None /\ before.format = None)
                 /\ IsSome(before.format)
                       => /\ IsSome(after)
                          /\ Unwrap(after).format = before.format
                          /\ Unwrap(after).value.type = "Empty"]_vars

(***************************************************************************)
(* C22.  set_value, set_formula, set_computed_value and set_format return  *)
(* OutOfBounds exactly when row >= rows or col >= cols, succeed otherwise, *)
(* and leave the grid unchanged when they return OutOfBounds.              *)
(***************************************************************************)
C22_BoundsError ==
    [][lastCall'.op \in {"set_value", "set_formula", "set_computed_value", "set_format"}
          => LET outside == lastCall'.row >= grid.rows \/ lastCall'.col >= grid.cols
             IN  /\ lastResult'.err = "OutOfBounds" <=> outside
                 /\ lastResult'.ok <=> ~outside
                 /\ outside => grid' = grid]_vars

\* set_format was called on a stored grid with a row beyond the last one and
\* returned OutOfBounds.
C22_Witness ==
    /\ lastCall.op = "set_format" /\ lastCall.row >= grid.rows /\ lastCall.col < grid.cols
    /\ lastResult.err = "OutOfBounds"
    /\ cell_count(grid) > 0

(***************************************************************************)
(* C23.  "(1+2)*3" parses to a multiplication whose left operand is the    *)
(* addition 1+2, and a cell given that formula holds 9.                    *)
(***************************************************************************)
C23_ParenthesesGroup ==
    (lastCall.op = "apply_patch" /\ IsFormulaEdit(lastCall) /\ EditText(lastCall) = FormulaParens)
        => /\ parse(FormulaParens).ok
           /\ parse(FormulaParens).formula.ast
                 = NodeBinaryOp("Mul", NodeBinaryOp("Add", NodeNumber(1), NodeNumber(2)),
                                NodeNumber(3))
           /\ lastResult.ok
           /\ CellValueEq(ValueAt(grid, A1), Number(9))

(***************************************************************************)
(* C24.  A parenthesis-free expression over number and cell-reference      *)
(* atoms with the operators + - * / ^ parses to the tree that splits at    *)
(* the rightmost operator of the loosest level present: + and - bind       *)
(* loosest, then * and /, then ^, and equal levels associate to the left.  *)
(* Entered through apply_patch, 1+2*3 gives 7 and 8-3-2 gives 3.           *)
(***************************************************************************)
C24_PrecedenceAndAssociativity ==
    (/\ IsFormulaEdit(lastCall)
     /\ EditText(lastCall) \in PrecedenceTexts \cup {FormulaPrecedence, FormulaAssoc})
        => /\ parse(EditText(lastCall)).ok
           /\ parse(EditText(lastCall)).formula.ast = SplitTree(Tail(EditText(lastCall)))
           /\ lastCall.op = "apply_patch"
                 => /\ EditText(lastCall) = FormulaPrecedence
                          => lastResult.ok /\ CellValueEq(ValueAt(grid, A1), Number(7))
                    /\ EditText(lastCall) = FormulaAssoc
                          => lastResult.ok /\ CellValueEq(ValueAt(grid, A1), Number(3))

\* The formula 8-3-2 has been entered through apply_patch and A1 holds 3.
C24_Witness ==
    /\ lastCall.op = "apply_patch" /\ IsFormulaEdit(lastCall)
    /\ EditText(lastCall) = FormulaAssoc
    /\ formulas[A1].ast = NodeBinaryOp("Sub", NodeBinaryOp("Sub", NodeNumber(8), NodeNumber(3)),
                                       NodeNumber(2))
    /\ CellValueEq(ValueAt(grid, A1), Number(3))

(***************************************************************************)
(* C25.  The formula IF(B1>0, "pos", "neg") is accepted when it is         *)
(* entered, and after each later edit of B1 the cell that bears it holds   *)
(* "pos" when B1 is greater than 0 and "neg" otherwise.                    *)
(***************************************************************************)
C25_IfFollowsB1 ==
    /\ (IsFormulaEdit(lastCall) /\ EditText(lastCall) = FormulaIf) => lastResult.ok
    /\ (/\ lastCall.op = "set_cell" /\ LastCell = B1 /\ lastResult.ok
        /\ A1 \in FormulaCells(grid) /\ FormulaTextAt(grid, A1) = FormulaIf)
          => LET b == to_number(ValueAt(grid, B1))
             IN  CellValueEq(ValueAt(grid, A1),
                             IF IsSome(b) /\ Unwrap(b) > 0 THEN Text(<<"p", "o", "s">>)
                             ELSE Text(<<"n", "e", "g">>))

(***************************************************************************)
(* C26.  A cell whose registered formula is SUM(B1:C1) holds, after every  *)
(* edit that succeeds, the sum of the values of B1 and C1 that coerce to a *)
(* number: absent and non-numeric cells add nothing, and the sum is 0 when *)
(* no cell of the range is numeric.                                        *)
(***************************************************************************)
C26_SumOverRange ==
    (/\ IsEdit(lastCall) /\ A1 \in DOMAIN formulas /\ formulas[A1].raw = FormulaSum)
        => LET num(c) == IF IsSome(get_cell(grid, c)) /\ IsSome(to_number(ValueAt(grid, c)))
                         THEN Unwrap(to_number(ValueAt(grid, c))) ELSE 0
           IN  /\ lastResult.ok
               /\ CellValueEq(ValueAt(grid, A1), Number(num(B1) + num(C1)))

\* A1 = SUM(B1:C1) holds 1 with B1 = -3 and C1 = 4.
C26_Witness ==
    /\ A1 \in DOMAIN formulas /\ formulas[A1].raw = FormulaSum
    /\ CellValueEq(ValueAt(grid, B1), Number(0 - 3))
    /\ CellValueEq(ValueAt(grid, C1), Number(4))
    /\ CellValueEq(ValueAt(grid, A1), Number(1))

(***************************************************************************)
(* C30.  SUM(A1:A2)+SUM(B1:B2) parses to a BinaryOp node with + at the     *)
(* root and the two calls of SUM as its children.                          *)
(***************************************************************************)
C30_OperatorBeforeCall ==
    (IsFormulaEdit(lastCall) /\ EditText(lastCall) = FormulaSumPlusSum)
        => /\ parse(FormulaSumPlusSum).ok
           /\ parse(FormulaSumPlusSum).formula.ast
                 = NodeBinaryOp("Add",
                      NodeFunction(<<"S", "U", "M">>, << NodeRange(CellRef(0, 0), CellRef(1, 0)) >>),
                      NodeFunction(<<"S", "U", "M">>, << NodeRange(CellRef(0, 1), CellRef(1, 1)) >>))

(***************************************************************************)
(* C28.  CellRef::parse(r.to_a1()) = r for every reference r drawn, and    *)
(* letter_to_col(col_to_letter(n)) = n for every column index n drawn;     *)
(* col_to_letter gives A for 0, Z for 25 and AA for 26.                    *)
(***************************************************************************)
C28_A1RoundTrip ==
    /\ lastCall.op = "parse"
          => lastCall.text = to_a1(LastCell) /\ lastResult.cells = Some(LastCell)
    /\ lastCall.op = "letter_to_col"
          => lastCall.text = col_to_letter(lastCall.col) /\ lastResult.cells = Some(lastCall.col)
    /\ lastCall.op = "col_to_letter"
          => /\ lastCall.col = 0 => lastResult.text = <<"A">>
             /\ lastCall.col = 25 => lastResult.text = <<"Z">>
             /\ lastCall.col = 26 => lastResult.text = <<"A", "A">>

\* The text AA100 of the reference (99, 26) has been parsed back.
C28_Witness ==
    /\ lastCall.op = "parse" /\ lastCall.row = 99 /\ lastCall.col = 26
    /\ lastCall.text = <<"A", "A", "1", "0", "0">>
    /\ lastResult.cells = Some(CellRef(99, 26))

(***************************************************************************)
(* C29.  On a grid constructed with zero rows or zero columns, get_range   *)
(* and apply_format_to_range return normally: the call ends with a value   *)
(* or an error value and not with the panic of rows - 1 or cols - 1.       *)
(***************************************************************************)
C29_NoUnderflowPanic ==
    (/\ lastCall.op \in {"get_range", "apply_format_to_range"}
     /\ (grid.rows = 0 \/ grid.cols = 0))
        => lastResult.err # "Panic"

(***************************************************************************)
(* C27.  For a grid built by set_value calls, from_json(to_json(g))        *)
(* succeeds and gives a grid with the same dimensions, the same stored     *)
(* cells and the same value in each of them.                               *)
(***************************************************************************)
C27_JsonRoundTrip ==
    lastCall.op = "from_json"
        => /\ lastResult.ok
           /\ LET restored == Unwrap(lastResult.grid)
              IN  /\ restored.rows = grid.rows /\ restored.cols = grid.cols
                  /\ StoredCells(restored) = StoredCells(grid)
                  /\ \A c \in StoredCells(grid) :
                        SerCellValue(ValueAt(restored, c)) = SerCellValue(ValueAt(grid, c))

(***************************************************************************)
(* C31.  The dependency list of a parsed formula contains the cell of      *)
(* every single reference of the formula and, for every range, every cell  *)
(* of the rectangle spanned by its two corners, in whichever order the     *)
(* corners are written.                                                    *)
(***************************************************************************)
C31_DependenciesCoverReferences ==
    (lastCall.op = "parse" /\ lastResult.ok)
        => ReferredCells(Unwrap(lastResult.formula).ast)
              \subseteq Range(Unwrap(lastResult.formula).dependencies)

(***************************************************************************)
(* C32.  set_computed_value(ref, v) changes at most the value of the cell  *)
(* stored at ref: the stored cells are the same cells, the cell at ref     *)
(* keeps its formula text and its format, every other cell is unchanged,   *)
(* and the dimensions are unchanged.                                       *)
(***************************************************************************)
C32_ComputedValueFrame ==
    [][lastCall'.op = "set_computed_value"
          => /\ grid'.rows = grid.rows /\ grid'.cols = grid.cols
             /\ StoredCells(grid') = StoredCells(grid)
             /\ \A c \in StoredCells(grid) :
                   IF c = LastCell'
                   THEN /\ Unwrap(get_cell(grid', c)).formula = Unwrap(get_cell(grid, c)).formula
                        /\ Unwrap(get_cell(grid', c)).format = Unwrap(get_cell(grid, c)).format
                   ELSE get_cell(grid', c) = get_cell(grid, c)]_vars

\* A1 bears a formula and a format, and set_computed_value gave it 5.
C32_Witness ==
    /\ lastCall.op = "set_computed_value" /\ lastResult.ok /\ LastCell = A1
    /\ IsSome(get_cell(grid, A1))
    /\ IsSome(Unwrap(get_cell(grid, A1)).formula)
    /\ IsSome(Unwrap(get_cell(grid, A1)).format)
    /\ CellValueEq(ValueAt(grid, A1), Number(5))

(***************************************************************************)
(* C33.  set_format(ref, partial) on a cell that has a format gives the    *)
(* cell the format whose every attribute is the one of partial where       *)
(* partial sets it and the one the cell had where partial does not; the    *)
(* value and the formula text of the cell are unchanged.                   *)
(***************************************************************************)
C33_FormatMerge ==
    [][(/\ lastCall'.op = "set_format" /\ lastResult'.ok
        /\ IsSome(get_cell(grid, LastCell'))
        /\ IsSome(Unwrap(get_cell(grid, LastCell')).format))
          => LET before == Unwrap(get_cell(grid, LastCell'))
                 now == Unwrap(get_cell(grid', LastCell'))
                 partial == lastCall'.format
             IN  /\ CellValueEq(now.value, before.value)
                 /\ now.formula = before.formula
                 /\ IsSome(now.format)
                 /\ \A f \in DOMAIN CellFormatNone :
                       Unwrap(now.format)[f] = IF IsSome(partial[f]) THEN partial[f]
                                              ELSE Unwrap(before.format)[f]]_vars

\* The last set_format set font_bold to false on a cell that kept the
\* number format it had.
C33_Witness ==
    /\ lastCall.op = "set_format" /\ lastResult.ok /\ LastCell = A1
    /\ lastCall.format.font_bold = Some(FALSE)
    /\ IsSome(get_cell(grid, A1)) /\ IsSome(Unwrap(get_cell(grid, A1)).format)
    /\ Unwrap(Unwrap(get_cell(grid, A1)).format).font_bold = Some(FALSE)
    /\ Unwrap(Unwrap(get_cell(grid, A1)).format).number_format = Some(<<"0", ".", "0">>)

(***************************************************************************)
(* C34.  When the evaluation of a formula fails in a recalculate pass, the *)
(* formula cells evaluated before it in that pass hold their newly written *)
(* values and the failing cell and the cells after it are as they were     *)
(* before the pass: the pass stops at the failing cell and nothing is      *)
(* rolled back.  The pass is a direct call of recalculate or the one of an *)
(* apply_patch with one formula update, which starts from the grid that    *)
(* set_formula left.                                                       *)
(***************************************************************************)
C34_PassAbortedNotRolledBack ==
    [][(/\ ~lastResult'.ok /\ lastResult'.err \in EvaluationErrors
        /\ \/ lastCall'.op = "recalculate"
           \/ lastCall'.op = "apply_patch" /\ IsFormulaEdit(lastCall'))
          => PassAborted(IF lastCall'.op = "recalculate" THEN grid
                         ELSE set_formula(grid, LastCell', parse(EditText(lastCall')).formula).grid,
                         grid', Engine', LastCell', lastResult'.err)]_vars

\* The patch that gave A1 the formula 1+2*3 failed at B1 = A1/0: A1 holds
\* the 7 that this pass wrote over the placeholder, and C1, which reads A1,
\* still holds its placeholder.
C34_Witness ==
    /\ lastCall.op = "apply_patch" /\ lastCall.patch = << UpdateOf(A1, FormulaPrecedence) >>
    /\ ~lastResult.ok /\ lastResult.err = "DivisionByZero"
    /\ CellValueEq(ValueAt(grid, A1), Number(7))
    /\ B1 \in DOMAIN formulas /\ formulas[B1].raw = FormulaA1DivZero
    /\ C1 \in DOMAIN formulas /\ formulas[C1].raw = FormulaA1Times2
    /\ IsSome(get_cell(grid, C1)) /\ ValueAt(grid, C1) = Empty

(***************************************************************************)
(* C35.  While the dependency graph contains a cycle: a recalculate call   *)
(* for any cell returns CircularReference and leaves the grid as it was; a *)
(* set_cell with a literal stores the literal, fails with                  *)
(* CircularReference in its recalculation, changes the value of no other   *)
(* cell and leaves the graph as it was; and the graph is without a cycle   *)
(* after a step only when that step registered a formula, through          *)
(* apply_patch, on a cell of a cycle.                                      *)
(***************************************************************************)
C35_CycleBlocksRecalculation ==
    [][GraphCycleNodes(dep_graph) # {}
          => /\ lastCall'.op = "recalculate"
                   => /\ ~lastResult'.ok /\ lastResult'.err = "CircularReference"
                      /\ grid' = grid
             /\ lastCall'.op = "set_cell"
                   => /\ ~lastResult'.ok /\ lastResult'.err = "CircularReference"
                      /\ dep_graph' = dep_graph /\ formulas' = formulas
                      /\ grid' = set_value(grid, LastCell', CellValueParse(lastCall'.text)).grid
             /\ GraphCycleNodes(dep_graph') = {}
                   => /\ lastCall'.op = "apply_patch" /\ IsFormulaEdit(lastCall')
                      /\ LastCell' \in GraphCycleNodes(dep_graph)]_vars

\* With A1 and B1 reading each other, recalculate for C1, which is no node
\* of the graph, returned CircularReference.
C35_Witness ==
    /\ lastCall.op = "recalculate" /\ LastCell = C1
    /\ ~lastResult.ok /\ lastResult.err = "CircularReference"
    /\ C1 \notin dep_graph.nodes
    /\ GraphCycleNodes(dep_graph) = {A1, B1}

(***************************************************************************)
(* C36.  apply_patch is not transactional.  When it fails at update k      *)
(* (Parse or OutOfBounds), the grid is the one the updates before k left   *)
(* and their formulas are registered; when it fails in its recalculation,  *)
(* every update is stored and registered and the cells that no pass wrote  *)
(* hold their stale value or the placeholder of their formula.             *)
(***************************************************************************)
C36_PatchNotTransactional ==
    [][(lastCall'.op = "apply_patch" /\ ~lastResult'.ok)
          => IF lastResult'.err \in {"Parse", "OutOfBounds"}
             THEN \E k \in DOMAIN lastCall'.patch : PatchFailedAt(k)
             ELSE PatchFailedInRecalculation]_vars

\* The patch [A1 <- 1+2*3, (out of bounds) <- 5] failed with OutOfBounds:
\* A1 bears the formula, which is registered, and holds its placeholder.
C36_Witness ==
    /\ lastCall.op = "apply_patch"
    /\ lastCall.patch = << UpdateOf(A1, FormulaPrecedence), UpdateOf(OutCell, Lit5) >>
    /\ ~lastResult.ok /\ lastResult.err = "OutOfBounds"
    /\ A1 \in FormulaCells(grid) /\ FormulaTextAt(grid, A1) = FormulaPrecedence
    /\ ValueAt(grid, A1) = Empty
    /\ A1 \in DOMAIN formulas /\ formulas[A1].raw = FormulaPrecedence

(***************************************************************************)
(* C37.  When apply_patch fails with OutOfBounds on a formula update, the  *)
(* stored formulas and the dependency graph of the engine are the ones     *)
(* from before that update.  The patch has that one update.                *)
(***************************************************************************)
C37_RejectedFormulaNotRegistered ==
    [][(/\ lastCall'.op = "apply_patch" /\ IsFormulaEdit(lastCall')
        /\ ~lastResult'.ok /\ lastResult'.err = "OutOfBounds")
          => formulas' = formulas /\ dep_graph' = dep_graph]_vars

(***************************************************************************)
(* C38.  A successful set_value with a value other than Empty leaves at    *)
(* the cell a cell with that value, no formula text and no format; a       *)
(* successful set_formula leaves a cell with the formula text, the value   *)
(* Empty and no format.  What the cell bore before is discarded.           *)
(***************************************************************************)
C38_SettersReplaceCell ==
    [][/\ (lastCall'.op = "set_value" /\ lastResult'.ok /\ lastCall'.value.type # "Empty")
            => /\ IsSome(get_cell(grid', LastCell'))
               /\ CellValueEq(ValueAt(grid', LastCell'), lastCall'.value)
               /\ Unwrap(get_cell(grid', LastCell')).formula = None
               /\ Unwrap(get_cell(grid', LastCell')).format = None
       /\ (lastCall'.op = "set_formula" /\ lastResult'.ok)
            => /\ IsSome(get_cell(grid', LastCell'))
               /\ ValueAt(grid', LastCell') = Empty
               /\ Unwrap(get_cell(grid', LastCell')).formula = Some(lastCall'.text)
               /\ Unwrap(get_cell(grid', LastCell')).format = None]_vars

\* The first call on the sheet whose A1 bore a formula and a format was
\* set_value(A1, 5): A1 holds 5 and bears neither.
C38_Witness ==
    /\ ops = 1 /\ lastCall.op = "set_value" /\ lastResult.ok /\ LastCell = A1
    /\ CellValueEq(ValueAt(grid, A1), Number(5))
    /\ Unwrap(get_cell(grid, A1)).formula = None
    /\ Unwrap(get_cell(grid, A1)).format = None

(***************************************************************************)
(* C39.  import_json replaces only the grid.  The stored formulas and the  *)
(* dependency graph are the ones from before the import, and the grid is   *)
(* the one the document denotes (the grid as it was when the document is   *)
(* rejected).  A later recalculation that succeeds is driven by those      *)
(* formulas: every registered formula cell the pass reaches that is stored *)
(* in the grid holds the value of its registered formula, and a cell whose *)
(* formula text is not registered is not evaluated.                        *)
(***************************************************************************)
C39_ImportKeepsEngine ==
    [][/\ lastCall'.op = "import_json"
            => /\ formulas' = formulas /\ dep_graph' = dep_graph
               /\ grid' = (IF lastResult'.ok THEN from_json(lastCall'.text).grid ELSE grid)
       /\ (lastCall'.op = "recalculate" /\ lastResult'.ok)
            => /\ \A v \in (AffectedSet(Engine, LastCell') \cap DOMAIN formulas)
                              \cap StoredCells(grid) :
                     /\ evaluate(formulas[v].ast, grid').ok
                     /\ CellValueEq(ValueAt(grid', v), evaluate(formulas[v].ast, grid').value)
               /\ \A c \in StoredCells(grid) \ DOMAIN formulas :
                     get_cell(grid', c) = get_cell(grid, c)]_vars

\* B1 came from an import (it bears no formula text, which apply_patch would
\* have given it) and holds 10: the recalculation for A1 = 5 wrote the value
\* of the formula =A1*2 registered for B1 before the import.
C39_Witness ==
    /\ lastCall.op = "recalculate" /\ lastResult.ok /\ LastCell = A1
    /\ B1 \in DOMAIN formulas /\ formulas[B1].raw = FormulaA1Times2
    /\ B1 \in StoredCells(grid) /\ B1 \notin FormulaCells(grid)
    /\ CellValueEq(ValueAt(grid, A1), Number(5))
    /\ CellValueEq(ValueAt(grid, B1), Number(10))

(***************************************************************************)
(* C40.  A call of SUM, AVERAGE, AVG, MIN, MAX or COUNT registered for A1  *)
(* evaluates to what the same call gives without its arguments whose       *)
(* evaluation fails; when it fails, it fails with the ArgumentCount of MIN *)
(* or MAX over no number, never with the error of an argument.  After an   *)
(* edit that succeeds A1 holds that value; SUM(1/0) and COUNT(1/0) are 0.  *)
(***************************************************************************)
C40_AggregatesDropFailingArguments ==
    (/\ IsEdit(lastCall) /\ A1 \in DOMAIN formulas
     /\ formulas[A1].ast.type = "Function" /\ formulas[A1].ast.name \in AggregateNames)
        => Bind(formulas[A1].ast, LAMBDA node :
           Bind(evaluate(node, grid), LAMBDA r :
           Bind(evaluate(WithoutFailing(node, grid), grid), LAMBDA absent :
              /\ r.ok = absent.ok
              /\ IF r.ok THEN CellValueEq(r.value, absent.value) ELSE r.err = absent.err
              /\ ~r.ok => (r.err = "ArgumentCount" /\ node.name \in {FnNames.MIN, FnNames.MAX})
              /\ (r.ok /\ lastResult.ok) => CellValueEq(ValueAt(grid, A1), r.value)
              /\ node.args = << NodeBinaryOp("Div", NodeNumber(1), NodeNumber(0)) >>
                    => /\ node.name \in {FnNames.SUM, FnNames.COUNT}
                             => r.ok /\ CellValueEq(r.value, Number(0))
                       /\ node.name \in {FnNames.AVERAGE, FnNames.AVG}
                             => r.ok /\ CellValueEq(r.value, Error(StrDivZero)))))

\* The patch that gave A1 the formula SUM(1/0) succeeded and A1 holds 0.
C40_Witness ==
    /\ lastCall.op = "apply_patch" /\ lastResult.ok
    /\ A1 \in DOMAIN formulas
    /\ formulas[A1].raw = <<"=">> \o FnNames.SUM \o <<"(", "1", "/", "0", ")">>
    /\ CellValueEq(ValueAt(grid, A1), Number(0))

====
